---- MODULE Spec2Model ----
(***************************************************************************)
(* The dynamic-model engine of the FastAPI RBAC server: the schema         *)
(* registry (dynamic_models / dynamic_fields), the table materializer,     *)
(* the value coercion of the data gateway and the HTTP handlers of         *)
(* src/api/dynamic_models.py, as one state machine over the database.      *)
(*                                                                         *)
(* Text is a sequence of one-character strings, so that str.lower(), the   *)
(* table_name pattern, the "dynamic_" prefix, int()/float() parsing and    *)
(* json.loads() are computed character by character.                       *)
(***************************************************************************)
EXTENDS Integers, Sequences, FiniteSets, TLC

(***************************************************************************)
(* Bounds of the model.                                                    *)
(***************************************************************************)
\* largest id the registry hands out to a dynamic model
MaxModelId == 1
\* largest id of a registry row, rows written through the data gateway
\* included
MaxRegistryId == 2
\* largest record id (sqlite rowid) a dynamic table hands out in Spec
MaxLifecycleRecordId == 1
\* largest record id a dynamic table hands out in SpecData
MaxRecordId == 2
\* largest skip / limit a list request is made with
MaxPage == 2
\* RateLimiter(max_requests, window_seconds, cleanup_interval) of the model
MaxRequests == 2
WindowSeconds == 2
CleanupInterval == 3
\* last reading of the clock in SpecLimiter
MaxTime == 5

(***************************************************************************)
(* Characters                                                              *)
(***************************************************************************)
UpperLetters ==
  <<"A","B","C","D","E","F","G","H","I","J","K","L","M",
    "N","O","P","Q","R","S","T","U","V","W","X","Y","Z">>

LowerLetters ==
  <<"a","b","c","d","e","f","g","h","i","j","k","l","m",
    "n","o","p","q","r","s","t","u","v","w","x","y","z">>

DigitChars == <<"0","1","2","3","4","5","6","7","8","9">>

Range(f) == { f[i] : i \in DOMAIN f }

IsUpper(c) == c \in Range(UpperLetters)
IsAlpha(c) == c \in Range(UpperLetters) \cup Range(LowerLetters)
IsDigit(c) == c \in Range(DigitChars)

DigitVal(c) == (CHOOSE i \in 1..10 : DigitChars[i] = c) - 1

\* str.lower() on one character
LowerChar(c) ==
  IF IsUpper(c) THEN LowerLetters[CHOOSE i \in 1..26 : UpperLetters[i] = c]
  ELSE c

\* str.lower()
Lower(s) == [i \in 1..Len(s) |-> LowerChar(s[i])]

\* str.strip() restricted to the blank character
RECURSIVE LStrip(_)
LStrip(s) == IF s # <<>> /\ Head(s) = " " THEN LStrip(Tail(s)) ELSE s

RECURSIVE RStrip(_)
RStrip(s) ==
  IF s # <<>> /\ s[Len(s)] = " " THEN RStrip(SubSeq(s, 1, Len(s) - 1)) ELSE s

Strip(s) == RStrip(LStrip(s))

AllDigits(s) == s # <<>> /\ \A i \in 1..Len(s) : IsDigit(s[i])

\* value of a non-empty digit string
RECURSIVE DigitsVal(_)
DigitsVal(s) ==
  IF s = <<>> THEN 0
  ELSE DigitsVal(SubSeq(s, 1, Len(s) - 1)) * 10 + DigitVal(s[Len(s)])

\* decimal digits of a natural number
RECURSIVE NatToStr(_)
NatToStr(n) ==
  IF n < 10 THEN <<DigitChars[n + 1]>>
  ELSE NatToStr(n \div 10) \o <<DigitChars[(n % 10) + 1]>>

RECURSIVE Pow10(_)
Pow10(e) == IF e = 0 THEN 1 ELSE 10 * Pow10(e - 1)

Abs(n) == IF n < 0 THEN -n ELSE n

\* position of the first occurrence of c in s, 0 when absent
IndexOf(s, c) ==
  IF \E i \in 1..Len(s) : s[i] = c
  THEN CHOOSE i \in 1..Len(s) : s[i] = c /\ \A j \in 1..(i - 1) : s[j] # c
  ELSE 0

(***************************************************************************)
(* Names: tables, columns and field types                                  *)
(***************************************************************************)
N_users == <<"u","s","e","r","s">>
N_roles == <<"r","o","l","e","s">>
N_permissions == <<"p","e","r","m","i","s","s","i","o","n","s">>
N_modules == <<"m","o","d","u","l","e","s">>
N_routes == <<"r","o","u","t","e","s">>
N_dynamic_models == <<"d","y","n","a","m","i","c","_","m","o","d","e","l","s">>
N_dynamic_fields == <<"d","y","n","a","m","i","c","_","f","i","e","l","d","s">>

\* f"dynamic_{model.table_name}"
TablePrefix == <<"d","y","n","a","m","i","c","_">>
PhysName(table_name) == TablePrefix \o table_name

K_id == <<"i","d">>
K_name == <<"n","a","m","e">>
K_table_name == <<"t","a","b","l","e","_","n","a","m","e">>
K_description == <<"d","e","s","c","r","i","p","t","i","o","n">>
K_is_active == <<"i","s","_","a","c","t","i","v","e">>
K_created_at == <<"c","r","e","a","t","e","d","_","a","t">>
K_updated_at == <<"u","p","d","a","t","e","d","_","a","t">>
K_field_type == <<"f","i","e","l","d","_","t","y","p","e">>
K_is_required == <<"i","s","_","r","e","q","u","i","r","e","d">>
K_is_unique == <<"i","s","_","u","n","i","q","u","e">>
K_default_value == <<"d","e","f","a","u","l","t","_","v","a","l","u","e">>
K_max_length == <<"m","a","x","_","l","e","n","g","t","h">>
K_field_order == <<"f","i","e","l","d","_","o","r","d","e","r">>
K_validation_rules ==
  <<"v","a","l","i","d","a","t","i","o","n","_","r","u","l","e","s">>
K_model_id == <<"m","o","d","e","l","_","i","d">>

T_string == <<"s","t","r","i","n","g">>
T_integer == <<"i","n","t","e","g","e","r">>
T_boolean == <<"b","o","o","l","e","a","n">>
T_text == <<"t","e","x","t">>
T_datetime == <<"d","a","t","e","t","i","m","e">>
T_float == <<"f","l","o","a","t">>
T_json == <<"j","s","o","n">>

\* the field_type pattern of DynamicFieldBase
FieldTypes ==
  {T_string, T_integer, T_boolean, T_text, T_datetime, T_float, T_json}

(***************************************************************************)
(* Python values.  One record shape for every value: t is the type tag,    *)
(* s the text of a str (or the JSON text of a dict/list), n the integer,   *)
(* the bool as 0/1 or the mantissa of a float, e the number of decimal     *)
(* places of a float (n / 10^e, n not a multiple of 10 unless e = 0).      *)
(***************************************************************************)
PyNone == [t |-> "none", s |-> <<>>, n |-> 0, e |-> 0]
PyStr(s) == [t |-> "str", s |-> s, n |-> 0, e |-> 0]
PyInt(n) == [t |-> "int", s |-> <<>>, n |-> n, e |-> 0]
PyBool(b) == [t |-> "bool", s |-> <<>>, n |-> IF b THEN 1 ELSE 0, e |-> 0]
PyObj(s) == [t |-> "obj", s |-> s, n |-> 0, e |-> 0]
\* datetime / CURRENT_TIMESTAMP value at clock reading n
PyTime(n) == [t |-> "time", s |-> <<>>, n |-> n, e |-> 0]

\* the float n / 10^e in normal form
RECURSIVE PyFloat(_, _)
PyFloat(n, e) ==
  IF e > 0 /\ n % 10 = 0 THEN PyFloat(n \div 10, e - 1)
  ELSE [t |-> "float", s |-> <<>>, n |-> n, e |-> e]

\* outcome of a conversion: a value, or the exception it raised
Ok(v) == [ok |-> TRUE, v |-> v]
Raise == [ok |-> FALSE, v |-> PyNone]

\* the sign and the unsigned rest of a numeric literal
SignOf(s) == IF s # <<>> /\ Head(s) = "-" THEN -1 ELSE 1
Unsigned(s) == IF s # <<>> /\ Head(s) \in {"-", "+"} THEN Tail(s) ELSE s

\* int(str): blanks stripped, optional sign, decimal digits; ValueError
\* otherwise (literals with digit-group underscores are not among the inputs)
ParseInt(s) ==
  LET u == Unsigned(Strip(s))
  IN  IF AllDigits(u) THEN Ok(PyInt(SignOf(Strip(s)) * DigitsVal(u))) ELSE Raise

\* float(str): blanks stripped, optional sign, digits with an optional
\* fraction; ValueError otherwise (exponent, inf and nan literals are not
\* among the inputs)
ParseFloat(s) ==
  LET t == Strip(s)
      u == Unsigned(t)
      p == IndexOf(u, ".")
      ip == IF p = 0 THEN u ELSE SubSeq(u, 1, p - 1)
      fp == IF p = 0 THEN <<>> ELSE SubSeq(u, p + 1, Len(u))
      wellFormed ==
        /\ ip \o fp # <<>>
        /\ \A i \in 1..Len(ip) : IsDigit(ip[i])
        /\ \A i \in 1..Len(fp) : IsDigit(fp[i])
  IN  IF wellFormed
      THEN Ok(PyFloat(SignOf(t) * DigitsVal(ip \o fp), Len(fp)))
      ELSE Raise

\* int(float): truncation toward zero
TruncFloat(v) ==
  LET q == Abs(v.n) \div Pow10(v.e) IN IF v.n < 0 THEN -q ELSE q

\* repr of a float: "19.99", "5.0"
FloatToStr(v) ==
  LET a == Abs(v.n)
      ip == NatToStr(a \div Pow10(v.e))
      fr == a % Pow10(v.e)
      fd == IF v.e = 0 THEN <<"0">> ELSE NatToStr(fr)
      pad == [i \in 1..(IF v.e = 0 THEN 0 ELSE v.e - Len(fd)) |-> "0"]
  IN  (IF v.n < 0 THEN <<"-">> ELSE <<>>) \o ip \o <<".">> \o pad \o fd

\* json.loads of a scalar document
JsonNumberOk(u) ==
  LET p == IndexOf(u, ".")
      ip == IF p = 0 THEN u ELSE SubSeq(u, 1, p - 1)
      fp == IF p = 0 THEN <<>> ELSE SubSeq(u, p + 1, Len(u))
  IN  /\ AllDigits(ip)
      /\ (Len(ip) > 1 => ip[1] # "0")
      /\ (p # 0 => AllDigits(fp))

JsonStringOk(s) ==
  /\ Len(s) >= 2
  /\ s[1] = "\"" /\ s[Len(s)] = "\""
  /\ \A i \in 2..(Len(s) - 1) : s[i] \notin {"\"", "\\"}

JsonScalar(s) ==
  LET u == IF s # <<>> /\ Head(s) = "-" THEN Tail(s) ELSE s
  IN  IF s = <<"t","r","u","e">> THEN Ok(PyBool(TRUE))
      ELSE IF s = <<"f","a","l","s","e">> THEN Ok(PyBool(FALSE))
      ELSE IF s = <<"n","u","l","l">> THEN Ok(PyNone)
      ELSE IF JsonStringOk(s) THEN Ok(PyStr(SubSeq(s, 2, Len(s) - 1)))
      ELSE IF JsonNumberOk(u)
        THEN IF IndexOf(u, ".") = 0 THEN ParseInt(s) ELSE ParseFloat(s)
      ELSE Raise

\* json.loads: a scalar, [] or an object of at most one member whose value
\* is again a document (documents with several members, non-empty arrays or
\* inner blanks are not among the inputs); JSONDecodeError otherwise
RECURSIVE JsonLoads(_)
JsonLoads(s) ==
  IF s = <<"{", "}">> \/ s = <<"[", "]">> THEN Ok(PyObj(s))
  ELSE IF Len(s) >= 2 /\ s[1] = "{" /\ s[Len(s)] = "}"
    THEN LET body == SubSeq(s, 2, Len(s) - 1)
             c == IndexOf(body, ":")
             key == SubSeq(body, 1, c - 1)
             val == SubSeq(body, c + 1, Len(body))
         IN  IF c > 0 /\ JsonStringOk(key) /\ JsonLoads(val).ok
             THEN Ok(PyObj(s)) ELSE Raise
  ELSE JsonScalar(s)

\* repr of a dict / list given by its JSON text: ' for ", a blank after :
RECURSIVE ObjToStr(_)
ObjToStr(s) ==
  IF s = <<>> THEN <<>>
  ELSE (IF Head(s) = "\"" THEN <<"'">>
        ELSE IF Head(s) = ":" THEN <<":", " ">>
        ELSE <<Head(s)>>) \o ObjToStr(Tail(s))

\* str(value)
PyToStr(v) ==
  CASE v.t = "str" -> v.s
    [] v.t = "int" -> (IF v.n < 0 THEN <<"-">> ELSE <<>>) \o NatToStr(Abs(v.n))
    [] v.t = "bool" -> IF v.n = 1 THEN <<"T","r","u","e">>
                       ELSE <<"F","a","l","s","e">>
    [] v.t = "float" -> FloatToStr(v)
    [] v.t = "obj" -> ObjToStr(v.s)
    [] OTHER -> <<"N","o","n","e">>

\* bool(value) of a value that is not a str
Truthy(v) ==
  CASE v.t \in {"int", "bool", "float"} -> v.n # 0
    [] v.t = "obj" -> v.s \notin {<<"{", "}">>, <<"[", "]">>}
    [] v.t = "str" -> v.s # <<>>
    [] OTHER -> FALSE

TrueWords ==
  { <<"t","r","u","e">>, <<"1">>, <<"y","e","s">>, <<"o","n">> }

\* a conversion that falls back to the unconverted value
OrKeep(conv, value) == IF conv.ok THEN conv ELSE Ok(value)

\* faulty variant of _convert_value: the except clause returns the value
\* as it came instead of raising
ConvertValueKeepsValue(value, field_type) ==
  CASE field_type = T_integer ->
         CASE value.t = "str" -> OrKeep(ParseInt(value.s), value)
           [] value.t \in {"int", "bool"} -> Ok(PyInt(value.n))
           [] value.t = "float" -> Ok(PyInt(TruncFloat(value)))
           [] OTHER -> Ok(value)
    [] field_type = T_float ->
         CASE value.t = "str" -> OrKeep(ParseFloat(value.s), value)
           [] value.t \in {"int", "bool"} -> Ok(PyFloat(value.n, 0))
           [] value.t = "float" -> Ok(value)
           [] OTHER -> Ok(value)
    [] field_type = T_boolean ->
         IF value.t = "str" THEN Ok(PyBool(Lower(value.s) \in TrueWords))
         ELSE Ok(PyBool(Truthy(value)))
    [] field_type = T_json ->
         IF value.t = "str" THEN OrKeep(JsonLoads(value.s), value)
         ELSE Ok(value)
    [] OTHER -> Ok(PyStr(PyToStr(value)))

\* DynamicDataService._convert_value: Raise is the ValueError of line 199
ConvertValue(value, field_type) ==
  CASE field_type = T_integer ->
         CASE value.t = "str" -> ParseInt(value.s)
           [] value.t \in {"int", "bool"} -> Ok(PyInt(value.n))
           [] value.t = "float" -> Ok(PyInt(TruncFloat(value)))
           [] OTHER -> Raise
    [] field_type = T_float ->
         CASE value.t = "str" -> ParseFloat(value.s)
           [] value.t \in {"int", "bool"} -> Ok(PyFloat(value.n, 0))
           [] value.t = "float" -> Ok(value)
           [] OTHER -> Raise
    [] field_type = T_boolean ->
         IF value.t = "str" THEN Ok(PyBool(Lower(value.s) \in TrueWords))
         ELSE Ok(PyBool(Truthy(value)))
    [] field_type = T_json ->
         IF value.t = "str" THEN JsonLoads(value.s) ELSE Ok(value)
    [] OTHER -> Ok(PyStr(PyToStr(value)))


(***************************************************************************)
(* Request validation (pydantic schemas)                                   *)
(***************************************************************************)
\* Field(..., min_length=1, max_length=100)
NameMinLen == 1
NameMaxLen == 100

\* pattern "^[a-zA-Z_][a-zA-Z0-9_]*$"
MatchesTableNamePattern(s) ==
  /\ Len(s) >= 1
  /\ IsAlpha(s[1]) \/ s[1] = "_"
  /\ \A i \in 2..Len(s) : IsAlpha(s[i]) \/ IsDigit(s[i]) \/ s[i] = "_"

\* reserved_names of DynamicModelCreate.validate_table_name
ReservedNames ==
  {N_users, N_roles, N_permissions, N_modules, N_routes, N_dynamic_models,
   N_dynamic_fields}

\* a validator that compares the name as given with the reserved names
ValidateTableNameAsGiven(v) ==
  IF v \in ReservedNames THEN Raise ELSE Ok(PyStr(Lower(v)))

\* DynamicModelCreate.validate_table_name: the value stored, or the
\* ValueError for a reserved name
ValidateTableName(v) ==
  IF Lower(v) \in ReservedNames THEN Raise ELSE Ok(PyStr(Lower(v)))

LengthOk(s) == Len(s) >= NameMinLen /\ Len(s) <= NameMaxLen

\* DynamicFieldBase: name length and the field_type pattern
FieldValid(f) == LengthOk(f.name) /\ f.field_type \in FieldTypes

\* request body of POST /models accepted by DynamicModelCreate
ModelCreateValid(m) ==
  /\ LengthOk(m.name)
  /\ LengthOk(m.table_name)
  /\ MatchesTableNamePattern(m.table_name)
  /\ ValidateTableName(m.table_name).ok
  /\ \A i \in 1..Len(m.fields) : FieldValid(m.fields[i])

\* Query(100, ge=1, le=1000) and Query(0, ge=0) of GET /models/{id}/data
LimitMin == 1
LimitMax == 1000
SkipMin == 0
PageQueryValid(skip, limit) ==
  skip >= SkipMin /\ limit >= LimitMin /\ limit <= LimitMax

(***************************************************************************)
(* The database: a function from table name to table; a table has its      *)
(* column definitions and its rows keyed by the integer primary key id.    *)
(* A stored value is a Python value as the sqlite driver binds it.         *)
(***************************************************************************)
\* column definition: NOT NULL, UNIQUE and the server-side default
Col(notnull, unique, dflt) ==
  [notnull |-> notnull, unique |-> unique, dflt |-> dflt]

NoRows == [i \in {} |-> PyNone]

\* id, created_at, updated_at of every model class and dynamic table
BaseCols ==
  (K_id :> Col(TRUE, TRUE, "rowid")) @@
  (K_created_at :> Col(FALSE, FALSE, "now")) @@
  (K_updated_at :> Col(FALSE, FALSE, "null"))

\* DynamicModel.__table__
DynamicModelsCols ==
  BaseCols @@
  (K_name :> Col(TRUE, TRUE, "null")) @@
  (K_table_name :> Col(TRUE, TRUE, "null")) @@
  (K_description :> Col(FALSE, FALSE, "null")) @@
  (K_is_active :> Col(TRUE, FALSE, "null"))

\* DynamicField.__table__
DynamicFieldsCols ==
  BaseCols @@
  (K_name :> Col(TRUE, FALSE, "null")) @@
  (K_field_type :> Col(TRUE, FALSE, "null")) @@
  (K_is_required :> Col(TRUE, FALSE, "null")) @@
  (K_is_unique :> Col(TRUE, FALSE, "null")) @@
  (K_default_value :> Col(FALSE, FALSE, "null")) @@
  (K_max_length :> Col(FALSE, FALSE, "null")) @@
  (K_field_order :> Col(TRUE, FALSE, "null")) @@
  (K_validation_rules :> Col(FALSE, FALSE, "null")) @@
  (K_model_id :> Col(TRUE, FALSE, "null"))

\* the fixed tables of the application; the columns of the five RBAC
\* tables other than id play no part in the dynamic-model engine
SystemTableNames ==
  {N_users, N_roles, N_permissions, N_modules, N_routes, N_dynamic_models,
   N_dynamic_fields}

SystemCols(tn) ==
  IF tn = N_dynamic_models THEN DynamicModelsCols
  ELSE IF tn = N_dynamic_fields THEN DynamicFieldsCols
  ELSE (K_id :> Col(TRUE, TRUE, "rowid"))

EmptyTable(cols) == [cols |-> cols, rows |-> NoRows]

\* Base.metadata.create_all on an empty database
FreshDatabase == [tn \in SystemTableNames |-> EmptyTable(SystemCols(tn))]

SetMax(S) == CHOOSE x \in S : \A y \in S : y <= x

\* sqlite rowid of the next inserted row: one more than the largest
NextRowId(rows) == IF DOMAIN rows = {} THEN 1 ELSE SetMax(DOMAIN rows) + 1

\* the value the sqlite driver stores for a bound parameter: a bool is
\* stored as the integer 0/1, None as NULL
Bind(v) == IF v.t = "bool" THEN PyInt(v.n) ELSE v

\* a dict / list parameter cannot be bound ("type 'dict' is not supported")
Bindable(v) == v.t # "obj"

\* a table that checks NOT NULL and no UNIQUE constraint
ConstraintsOkNotNullOnly(tab, id, row) ==
  \A c \in DOMAIN tab.cols : tab.cols[c].notnull => row[c].t # "none"

\* NOT NULL and UNIQUE hold for row (with primary key id) in table tab
ConstraintsOk(tab, id, row) ==
  \A c \in DOMAIN tab.cols :
    /\ tab.cols[c].notnull => row[c].t # "none"
    /\ (tab.cols[c].unique /\ row[c].t # "none") =>
         \A j \in DOMAIN tab.rows \ {id} : tab.rows[j][c] # row[c]

\* result of a statement: err, the database after it, the rows it returns
\* and its lastrowid / rowcount
SqlResult(err, db, rows, n) == [err |-> err, db |-> db, rows |-> rows, n |-> n]
SqlError(db) == SqlResult(TRUE, db, <<>>, 0)

\* INSERT INTO tn (keys of vals) VALUES (:keys), committed
SqlInsert(db, tn, vals, clk) ==
  IF tn \notin DOMAIN db THEN SqlError(db)
  ELSE
    LET tab == db[tn]
        id == NextRowId(tab.rows)
        row == [c \in DOMAIN tab.cols |->
                  IF c \in DOMAIN vals THEN Bind(vals[c])
                  ELSE IF tab.cols[c].dflt = "rowid" THEN PyInt(id)
                  ELSE IF tab.cols[c].dflt = "now" THEN PyTime(clk)
                  ELSE PyNone]
    IN  IF \/ DOMAIN vals = {}
           \/ ~(DOMAIN vals \subseteq DOMAIN tab.cols)
           \/ \E c \in DOMAIN vals : ~Bindable(vals[c])
           \/ ~ConstraintsOk(tab, id, row)
        THEN SqlError(db)
        ELSE SqlResult(FALSE,
               [db EXCEPT ![tn].rows = (id :> row) @@ tab.rows], <<>>, id)

\* the ids of S in descending order
RECURSIVE DescSeq(_)
DescSeq(S) ==
  IF S = {} THEN <<>> ELSE <<SetMax(S)>> \o DescSeq(S \ {SetMax(S)})

Min(a, b) == IF a < b THEN a ELSE b

\* faulty variant of the page query: ORDER BY id without DESC
SqlSelectPageAscending(db, tn, skip, limit) ==
  IF tn \notin DOMAIN db THEN SqlError(db)
  ELSE
    LET desc == DescSeq(DOMAIN db[tn].rows)
        ids == [i \in 1..Len(desc) |-> desc[Len(desc) + 1 - i]]
        page == SubSeq(ids, skip + 1, Min(Len(ids), skip + limit))
    IN  SqlResult(FALSE, db, [i \in 1..Len(page) |-> db[tn].rows[page[i]]], 0)

\* SELECT * FROM tn ORDER BY id DESC LIMIT limit OFFSET skip
SqlSelectPage(db, tn, skip, limit) ==
  IF tn \notin DOMAIN db THEN SqlError(db)
  ELSE
    LET ids == DescSeq(DOMAIN db[tn].rows)
        page == SubSeq(ids, skip + 1, Min(Len(ids), skip + limit))
    IN  SqlResult(FALSE, db, [i \in 1..Len(page) |-> db[tn].rows[page[i]]], 0)

\* SELECT * FROM tn WHERE id = :id
SqlSelectById(db, tn, id) ==
  IF tn \notin DOMAIN db THEN SqlError(db)
  ELSE IF id \in DOMAIN db[tn].rows
    THEN SqlResult(FALSE, db, <<db[tn].rows[id]>>, 0)
  ELSE SqlResult(FALSE, db, <<>>, 0)

\* UPDATE tn SET keys of vals = :keys WHERE id = :id; n is the rowcount
SqlUpdate(db, tn, id, vals) ==
  IF tn \notin DOMAIN db THEN SqlError(db)
  ELSE
    LET tab == db[tn]
    IN  IF \/ ~(DOMAIN vals \subseteq DOMAIN tab.cols)
           \/ \E c \in DOMAIN vals : ~Bindable(vals[c])
        THEN SqlError(db)
        ELSE IF id \notin DOMAIN tab.rows THEN SqlResult(FALSE, db, <<>>, 0)
        ELSE
          LET row == [c \in DOMAIN tab.cols |->
                        IF c \in DOMAIN vals THEN Bind(vals[c])
                        ELSE tab.rows[id][c]]
          IN  IF ~ConstraintsOk(tab, id, row) THEN SqlError(db)
              ELSE SqlResult(FALSE, [db EXCEPT ![tn].rows[id] = row], <<>>, 1)

\* DELETE FROM tn WHERE id = :id; n is the rowcount
SqlDelete(db, tn, id) ==
  IF tn \notin DOMAIN db THEN SqlError(db)
  ELSE IF id \notin DOMAIN db[tn].rows THEN SqlResult(FALSE, db, <<>>, 0)
  ELSE SqlResult(FALSE,
         [db EXCEPT ![tn].rows =
            [j \in DOMAIN db[tn].rows \ {id} |-> db[tn].rows[j]]], <<>>, 1)

\* DROP TABLE IF EXISTS tn
SqlDropIfExists(db, tn) == [x \in DOMAIN db \ {tn} |-> db[x]]

\* CREATE TABLE tn (cols), skipped when the table exists (checkfirst=True)
SqlCreateCheckFirst(db, tn, cols) ==
  IF tn \in DOMAIN db THEN db ELSE (tn :> EmptyTable(cols)) @@ db


(***************************************************************************)
(* The registry as the ORM reads it                                        *)
(***************************************************************************)
\* the ids of S in ascending order
RECURSIVE AscSeq(_)
AscSeq(S) ==
  IF S = {} THEN <<>>
  ELSE LET m == CHOOSE x \in S : \A y \in S : x <= y
       IN  <<m>> \o AscSeq(S \ {m})

\* db.query(DynamicModel).filter(DynamicModel.id == model_id).first():
\* err when the registry table cannot be read, rows = <<row>> or <<>>
QueryModel(db, model_id) == SqlSelectById(db, N_dynamic_models, model_id)

\* model.fields: the DynamicField rows of the model, in primary-key order
ModelFields(db, model_id) ==
  IF N_dynamic_fields \notin DOMAIN db THEN SqlError(db)
  ELSE
    LET rows == db[N_dynamic_fields].rows
        ids == AscSeq({ i \in DOMAIN rows : rows[i][K_model_id] = PyInt(model_id) })
    IN  SqlResult(FALSE, db, [i \in 1..Len(ids) |-> rows[ids[i]]], 0)

\* f"dynamic_{model.table_name}" of a registry row
TableOf(modelRow) == PhysName(modelRow[K_table_name].s)

(***************************************************************************)
(* DynamicDataService                                                      *)
(***************************************************************************)
\* outcome of a service call: exc (it raised), the database after it, the
\* rows it returned and ret: "value", "none", "true" or "false", and for a
\* call that raised what the ValueError reports: "not_found" (Dynamic model
\* not found), "missing" (Field ... is required), "invalid" (Invalid
\* value for field type ...) or "error" (an exception of the database layer)
Svc(exc, db, body, ret) == [exc |-> exc, db |-> db, body |-> body, ret |-> ret]
SvcRaise(db, why) == Svc(TRUE, db, <<>>, why)

\* data.get(field.name)
DataGet(data, key) == IF key \in DOMAIN data THEN data[key] ELSE PyNone

\* faulty variant of the loop of _validate_data: the required-field test
\* is left out, an absent field is skipped
RECURSIVE ValidateFromSkipsRequired(_, _, _, _, _)
ValidateFromSkipsRequired(fields, i, data, is_update, acc) ==
  IF i > Len(fields) THEN [ok |-> TRUE, why |-> "-", vals |-> acc]
  ELSE
    LET field == fields[i]
        value == DataGet(data, field[K_name].s)
        conv == ConvertValue(value, field[K_field_type].s)
    IN  IF value.t = "none"
          THEN ValidateFromSkipsRequired(fields, i + 1, data, is_update, acc)
        ELSE IF ~conv.ok THEN [ok |-> FALSE, why |-> "invalid", vals |-> acc]
        ELSE ValidateFromSkipsRequired(fields, i + 1, data, is_update,
                                       (field[K_name].s :> conv.v) @@ acc)

\* the loop of DynamicDataService._validate_data from field i on; acc is
\* validated_data so far
RECURSIVE ValidateFrom(_, _, _, _, _)
ValidateFrom(fields, i, data, is_update, acc) ==
  IF i > Len(fields) THEN [ok |-> TRUE, why |-> "-", vals |-> acc]
  ELSE
    LET field == fields[i]
        value == DataGet(data, field[K_name].s)
        conv == ConvertValue(value, field[K_field_type].s)
    IN  IF field[K_is_required].n # 0 /\ value.t = "none" /\ ~is_update
          THEN [ok |-> FALSE, why |-> "missing", vals |-> acc]
        ELSE IF value.t = "none"
          THEN ValidateFrom(fields, i + 1, data, is_update, acc)
        ELSE IF ~conv.ok THEN [ok |-> FALSE, why |-> "invalid", vals |-> acc]
        ELSE ValidateFrom(fields, i + 1, data, is_update,
                          (field[K_name].s :> conv.v) @@ acc)

\* DynamicDataService._validate_data
ValidateData(fields, data, is_update) ==
  ValidateFrom(fields, 1, data, is_update, [k \in {} |-> PyNone])

\* DynamicDataService.get_record
get_record(db, model_id, record_id) ==
  LET q == QueryModel(db, model_id)
  IN  IF q.err THEN SvcRaise(db, "error")
      ELSE IF q.rows = <<>> THEN SvcRaise(db, "not_found")
      ELSE
        LET r == SqlSelectById(db, TableOf(q.rows[1]), record_id)
        IN  IF r.err THEN SvcRaise(db, "error")
            ELSE IF r.rows = <<>> THEN Svc(FALSE, db, <<>>, "none")
            ELSE Svc(FALSE, db, r.rows, "value")

\* DynamicDataService.create_record
create_record(db, model_id, data, clk) ==
  LET q == QueryModel(db, model_id)
  IN  IF q.err THEN SvcRaise(db, "error")
      ELSE IF q.rows = <<>> THEN SvcRaise(db, "not_found")
      ELSE
        LET fs == ModelFields(db, model_id)
            v == ValidateData(fs.rows, data, FALSE)
            ins == SqlInsert(db, TableOf(q.rows[1]), v.vals, clk)
        IN  IF fs.err THEN SvcRaise(db, "error")
            ELSE IF ~v.ok THEN SvcRaise(db, v.why)
            ELSE IF ins.err THEN SvcRaise(db, "error")
            ELSE get_record(ins.db, model_id, ins.n)

\* DynamicDataService.get_all_records
get_all_records(db, model_id, skip, limit) ==
  LET q == QueryModel(db, model_id)
  IN  IF q.err THEN SvcRaise(db, "error")
      ELSE IF q.rows = <<>> THEN SvcRaise(db, "not_found")
      ELSE
        LET r == SqlSelectPage(db, TableOf(q.rows[1]), skip, limit)
        IN  IF r.err THEN SvcRaise(db, "error")
            ELSE Svc(FALSE, db, r.rows, "value")

\* DynamicDataService.update_record; an empty SET list is a syntax error
update_record(db, model_id, record_id, data, clk) ==
  LET q == QueryModel(db, model_id)
  IN  IF q.err THEN SvcRaise(db, "error")
      ELSE IF q.rows = <<>> THEN SvcRaise(db, "not_found")
      ELSE
        LET fs == ModelFields(db, model_id)
            v == ValidateData(fs.rows, data, TRUE)
            upd == SqlUpdate(db, TableOf(q.rows[1]), record_id,
                             (K_updated_at :> PyTime(clk)) @@ v.vals)
        IN  IF fs.err THEN SvcRaise(db, "error")
            ELSE IF ~v.ok THEN SvcRaise(db, v.why)
            ELSE IF DOMAIN v.vals = {} THEN SvcRaise(db, "error")
            ELSE IF upd.err THEN SvcRaise(db, "error")
            ELSE IF upd.n = 0 THEN Svc(FALSE, db, <<>>, "none")
            ELSE get_record(upd.db, model_id, record_id)

\* DynamicDataService.delete_record
delete_record(db, model_id, record_id) ==
  LET q == QueryModel(db, model_id)
  IN  IF q.err THEN SvcRaise(db, "error")
      ELSE IF q.rows = <<>> THEN SvcRaise(db, "not_found")
      ELSE
        LET d == SqlDelete(db, TableOf(q.rows[1]), record_id)
        IN  IF d.err THEN SvcRaise(db, "error")
            ELSE Svc(FALSE, d.db, <<>>, IF d.n > 0 THEN "true" ELSE "false")


(***************************************************************************)
(* DynamicModelService                                                     *)
(***************************************************************************)
\* outcome of a registry service call: as Svc, with Base.metadata after it
MSvc(exc, db, meta, body, ret) ==
  [exc |-> exc, db |-> db, meta |-> meta, body |-> body, ret |-> ret]

\* the DynamicField rows added for fields[i..], in one transaction
RECURSIVE InsertFields(_, _, _, _, _)
InsertFields(db, fields, i, model_id, clk) ==
  IF i > Len(fields) THEN SqlResult(FALSE, db, <<>>, 0)
  ELSE
    LET f == fields[i]
        ins == SqlInsert(db, N_dynamic_fields,
                 (K_name :> PyStr(f.name)) @@
                 (K_field_type :> PyStr(f.field_type)) @@
                 (K_is_required :> PyBool(f.is_required)) @@
                 (K_is_unique :> PyBool(f.is_unique)) @@
                 (K_default_value :> f.default_value) @@
                 (K_field_order :> PyInt(0)) @@
                 (K_model_id :> PyInt(model_id)), clk)
    IN  IF ins.err THEN SqlError(db)
        ELSE InsertFields(ins.db, fields, i + 1, model_id, clk)

\* columns built without the unique flag of the field
RECURSIVE FieldColsNotUnique(_, _)
FieldColsNotUnique(fields, i) ==
  IF i > Len(fields) THEN [k \in {} |-> Col(FALSE, FALSE, "null")]
  ELSE FieldColsNotUnique(fields, i + 1) @@
       (fields[i].name :> Col(fields[i].is_required, FALSE, "null"))

\* the columns of the table class built by _create_database_table: in the
\* dict of columns a later column replaces an earlier one of the same name
RECURSIVE FieldCols(_, _)
FieldCols(fields, i) ==
  IF i > Len(fields) THEN [k \in {} |-> Col(FALSE, FALSE, "null")]
  ELSE FieldCols(fields, i + 1) @@
       (fields[i].name :> Col(fields[i].is_required, fields[i].is_unique, "null"))

TableCols(fields) == FieldCols(fields, 1) @@ BaseCols

\* DynamicModelService._create_database_table: defining the table class
\* raises when Base.metadata already has a table of that name; ddl_ok is
\* whether the engine carries out CREATE TABLE.  exc, db and meta after it.
create_database_table(db, meta, table_name, fields, ddl_ok) ==
  LET tn == PhysName(table_name)
  IN  IF tn \in meta THEN [exc |-> TRUE, db |-> db, meta |-> meta]
      ELSE IF ~ddl_ok THEN [exc |-> TRUE, db |-> db, meta |-> meta \cup {tn}]
      ELSE [exc |-> FALSE,
            db |-> SqlCreateCheckFirst(db, tn, TableCols(fields)),
            meta |-> meta \cup {tn}]

\* what db.rollback() in the except clause of create_dynamic_model leaves
\* of a database whose registry rows were committed at line 46
RollbackAfterCommit(committed, before) == committed

\* the session of create_dynamic_model before db.commit(): the DynamicModel
\* row flushed, then the DynamicField rows; n is the id of the model
FlushModel(db, m, clk) ==
  LET ins == SqlInsert(db, N_dynamic_models,
               (K_name :> PyStr(m.name)) @@
               (K_table_name :> PyStr(m.table_name)) @@
               (K_is_active :> PyBool(m.is_active)), clk)
      fins == InsertFields(ins.db, m.fields, 1, ins.n, clk)
  IN  [err |-> ins.err \/ fins.err, db |-> fins.db, n |-> ins.n]

\* DynamicModelService.create_dynamic_model
create_dynamic_model(db, meta, m, clk, ddl_ok) ==
  LET fl == FlushModel(db, m, clk)
      mat == create_database_table(fl.db, meta, m.table_name, m.fields, ddl_ok)
  IN  IF fl.err THEN MSvc(TRUE, db, meta, <<>>, "error")
      ELSE IF mat.exc
        THEN MSvc(TRUE, RollbackAfterCommit(fl.db, db), mat.meta, <<>>, "error")
      ELSE MSvc(FALSE, mat.db, mat.meta, QueryModel(mat.db, fl.n).rows, "value")

\* DynamicModelService.get_all_dynamic_models
get_all_dynamic_models(db) ==
  IF N_dynamic_models \notin DOMAIN db THEN SvcRaise(db, "error")
  ELSE
    LET rows == db[N_dynamic_models].rows
        ids == AscSeq({ i \in DOMAIN rows : rows[i][K_is_active] = PyInt(1) })
    IN  Svc(FALSE, db, [i \in 1..Len(ids) |-> rows[ids[i]]], "value")

\* DynamicModelService.get_dynamic_model_by_id
get_dynamic_model_by_id(db, model_id) ==
  LET q == QueryModel(db, model_id)
  IN  IF q.err THEN SvcRaise(db, "error")
      ELSE IF q.rows = <<>> THEN Svc(FALSE, db, <<>>, "none")
      ELSE Svc(FALSE, db, q.rows, "value")

\* DynamicModelService.update_dynamic_model; the unit of work writes the
\* attributes whose value changed, and updated_at with them
update_dynamic_model(db, model_id, update_data, clk) ==
  LET q == QueryModel(db, model_id)
  IN  IF q.err THEN SvcRaise(db, "error")
      ELSE IF q.rows = <<>> THEN Svc(FALSE, db, <<>>, "none")
      ELSE
        LET changed == { k \in DOMAIN update_data :
                           Bind(update_data[k]) # q.rows[1][k] }
            upd == SqlUpdate(db, N_dynamic_models, model_id,
                     (K_updated_at :> PyTime(clk)) @@
                     [k \in changed |-> update_data[k]])
        IN  IF changed = {} THEN Svc(FALSE, db, q.rows, "value")
            ELSE IF upd.err THEN SvcRaise(db, "error")
            ELSE Svc(FALSE, upd.db, QueryModel(upd.db, model_id).rows, "value")

\* db.delete(db_model); db.commit(): the DynamicField rows of the model
\* (cascade) and its DynamicModel row
OrmDeleteModel(db, model_id) ==
  IF N_dynamic_models \notin DOMAIN db \/ N_dynamic_fields \notin DOMAIN db
  THEN SqlError(db)
  ELSE
    LET frows == db[N_dynamic_fields].rows
        keep == { i \in DOMAIN frows : frows[i][K_model_id] # PyInt(model_id) }
        db1 == [db EXCEPT ![N_dynamic_fields].rows = [i \in keep |-> frows[i]]]
    IN  SqlDelete(db1, N_dynamic_models, model_id)

\* DynamicModelService.delete_dynamic_model.  drop_ok: the connection
\* carries out the DROP TABLE statement (it raises otherwise); commit_ok:
\* the registry delete commits (it raises otherwise)
delete_dynamic_model(db, model_id, drop_ok, commit_ok) ==
  LET q == QueryModel(db, model_id)
  IN  IF q.err THEN SvcRaise(db, "error")
      ELSE IF q.rows = <<>> THEN Svc(FALSE, db, <<>>, "false")
      ELSE IF ~drop_ok THEN Svc(FALSE, db, <<>>, "false")
      ELSE
        LET dropped == SqlDropIfExists(db, TableOf(q.rows[1]))
            del == OrmDeleteModel(dropped, model_id)
        IN  IF del.err \/ ~commit_ok THEN Svc(FALSE, dropped, <<>>, "false")
            ELSE Svc(FALSE, del.db, <<>>, "true")


(***************************************************************************)
(* RateLimiter of src/middleware/rate_limiting.py.  Times are readings of  *)
(* time.time() in whole seconds.                                           *)
(***************************************************************************)
\* a request as is_allowed reads it: client_ip is what _get_real_ip
\* returns, user_id is 0 for a request without user, user_agent the header
LimiterReq(client_ip, user_id, user_agent) ==
  [client_ip |-> client_ip, user_id |-> user_id, user_agent |-> user_agent]

\* hashlib.md5(user_agent.encode()).hexdigest()[:8] of the user agents of
\* the model
Md5Prefix(user_agent) ==
  CASE user_agent = "curl/8.0" -> "299e8ec9"
    [] user_agent = "Mozilla/5.0" -> "0e3c1d55"
    [] OTHER -> "d41d8cd9"

\* RateLimiter._get_client_identifier: f"user:{user_id}" when user_id is
\* truthy, else f"{client_ip}:{md5 prefix}"
ClientIdentifier(req) ==
  IF req.user_id # 0 THEN <<"user", req.user_id>>
  ELSE <<req.client_ip, Md5Prefix(req.user_agent)>>

\* RateLimiter.__init__ at time t
NewLimiter(t) ==
  [requests |-> <<>>, blocked_ips |-> <<>>, last_cleanup |-> t]

NoHistory == <<>>

\* [req_time for req_time in times if req_time > cutoff_time]
RECURSIVE Newer(_, _)
Newer(times, cutoff_time) ==
  IF times = <<>> THEN <<>>
  ELSE IF Head(times) > cutoff_time
       THEN <<Head(times)>> \o Newer(Tail(times), cutoff_time)
       ELSE Newer(Tail(times), cutoff_time)

\* self.requests[client_id] of the defaultdict(list)
RequestsOf(L, client_id) ==
  IF client_id \in DOMAIN L.requests THEN L.requests[client_id] ELSE <<>>

\* RateLimiter._cleanup_old_requests at time t
CleanupOldRequests(L, t) ==
  IF t - L.last_cleanup < CleanupInterval THEN L
  ELSE
    LET kept == { c \in DOMAIN L.requests :
                    Newer(L.requests[c], t - WindowSeconds) # <<>> }
        held == { ip \in DOMAIN L.blocked_ips :
                    ~(t - L.blocked_ips[ip] > WindowSeconds * 2) }
    IN  [requests |-> [c \in kept |-> Newer(L.requests[c], t - WindowSeconds)],
         blocked_ips |-> [ip \in held |-> L.blocked_ips[ip]],
         last_cleanup |-> t]

\* current_requests > self.max_requests: the test with the equal case
\* left out
LimitReachedStrict(current_requests) == current_requests > MaxRequests

\* current_requests >= self.max_requests
LimitReached(current_requests) == current_requests >= MaxRequests

\* RateLimiter.is_allowed at time t: the limiter it leaves, the boolean it
\* returns and the "error" of the info it returns ("-" when allowed)
is_allowed(L0, req, t) ==
  LET L == CleanupOldRequests(L0, t)
      client_id == ClientIdentifier(req)
      client_ip == req.client_ip
      blocked == /\ client_ip \in DOMAIN L.blocked_ips
                 /\ t - L.blocked_ips[client_ip] < WindowSeconds
      L1 == [L EXCEPT !.blocked_ips =
               [ip \in DOMAIN L.blocked_ips \ {client_ip} |-> L.blocked_ips[ip]]]
      recent == Newer(RequestsOf(L1, client_id), t - WindowSeconds)
      L2 == [L1 EXCEPT !.requests = (client_id :> recent) @@ L1.requests]
  IN  IF blocked
      THEN [limiter |-> L, allowed |-> FALSE, error |-> "IP temporarily blocked"]
      ELSE IF LimitReached(Len(recent))
      THEN [limiter |-> [L2 EXCEPT !.blocked_ips =
                           (client_ip :> t) @@ L2.blocked_ips],
            allowed |-> FALSE, error |-> "Rate limit exceeded"]
      ELSE [limiter |-> [L2 EXCEPT !.requests =
                           (client_id :> Append(recent, t)) @@ L2.requests],
            allowed |-> TRUE, error |-> "-"]

(***************************************************************************)
(* State                                                                   *)
(***************************************************************************)
VARIABLES
  db,        \* the database: table name -> [cols, rows]
  metadata,  \* Base.metadata of the running process: the table names defined
  now,       \* the wall clock (datetime.utcnow(), CURRENT_TIMESTAMP,
             \* time.time()); outside SpecLimiter the requests of a run
             \* are served within one reading of it
  resp,      \* the response to the last request
  workers,   \* the POST /models calls in flight in concurrent server
             \* processes: process -> its position, session and metadata
  limiter,   \* the RateLimiter: requests, blocked_ips, last_cleanup
  history    \* client identifier -> the times is_allowed admitted a
             \* request of the client (kept for the properties only)

vars == <<db, metadata, now, resp, workers, limiter, history>>

\* a response: the handler, its path parameters, the HTTP status, the rows
\* of the body and how the service call it made ended (ret of Svc; "-" when
\* no service call was made)
Resp(op, model_id, record_id, status, body, ret) ==
  [op |-> op, model_id |-> model_id, record_id |-> record_id,
   status |-> status, body |-> body, ret |-> ret]

NoResp == Resp("startup", 0, 0, 0, <<>>, "-")

\* no POST /models is in flight in another server process
NoWorkers == <<>>

\* the except clauses of create_dynamic_model, create_dynamic_data,
\* get_dynamic_data: ValueError -> 400
StatusValueError(svc) == IF svc.exc THEN 400 ELSE 200

\* the record handlers: ValueError -> 400; the HTTPException(404) raised
\* inside the try block for a None / False result is an Exception, caught by
\* "except Exception" -> 500
StatusRecordHandler(svc) ==
  IF svc.exc THEN 400
  ELSE IF svc.ret \in {"none", "false"} THEN 500
  ELSE 200

\* update_dynamic_model / delete_dynamic_model: "except Exception" -> 500
\* catches service exceptions and the handler's own HTTPException(404)
StatusModelHandler(svc) ==
  IF svc.exc THEN 500
  ELSE IF svc.ret \in {"none", "false"} THEN 500
  ELSE 200

\* get_dynamic_model has no try block: 404 for None, 500 for an exception
StatusGetModel(svc) ==
  IF svc.exc THEN 500 ELSE IF svc.ret = "none" THEN 404 ELSE 200

(***************************************************************************)
(* Requests                                                                *)
(***************************************************************************)
S_invoice == <<"i","n","v","o","i","c","e">>
S_Invoice == <<"I","n","v","o","i","c","e">>
S_order == <<"o","r","d","e","r">>
S_models == <<"m","o","d","e","l","s">>
S_fields == <<"f","i","e","l","d","s">>
S_Users == <<"U","s","e","r","s">>
S_9lives == <<"9","l","i","v","e","s">>
S_catalog == <<"c","a","t","a","l","o","g">>
S_audit == <<"a","u","d","i","t">>
S_amount == <<"a","m","o","u","n","t">>
S_paid == <<"p","a","i","d">>
S_qty == <<"q","t","y">>
S_meta == <<"m","e","t","a">>
S_note == <<"n","o","t","e">>
S_extra == <<"e","x","t","r","a">>
S_false == <<"f","a","l","s","e">>
S_uuid == <<"u","u","i","d">>
S_19_99 == <<"1","9",".","9","9">>
S_abc == <<"a","b","c">>
S_Yes == <<"Y","e","s">>
S_12 == <<"1","2">>
S_1_5 == <<"1",".","5">>
S_json_obj == <<"{","\"","a","\"",":","1","}">>
S_json_str == <<"\"","s","\"">>
S_json_bad == <<"{","\"","a","\"">>

\* a field of a POST /models body
FieldDef(name, field_type, is_required, is_unique, default_value) ==
  [name |-> name, field_type |-> field_type, is_required |-> is_required,
   is_unique |-> is_unique, default_value |-> default_value]

\* a POST /models body
ModelReq(name, table_name, is_active, fields) ==
  [name |-> name, table_name |-> table_name, is_active |-> is_active,
   fields |-> fields]

InvoiceFields ==
  << FieldDef(S_amount, T_float, TRUE, FALSE, PyNone),
     FieldDef(S_paid, T_boolean, FALSE, FALSE, PyStr(S_false)) >>

OrderFields ==
  << FieldDef(S_qty, T_integer, TRUE, TRUE, PyNone),
     FieldDef(S_meta, T_json, FALSE, FALSE, PyNone) >>

\* fields named like columns of the registry table
RegistryLikeFields ==
  << FieldDef(K_name, T_string, TRUE, FALSE, PyNone),
     FieldDef(K_table_name, T_string, TRUE, FALSE, PyNone),
     FieldDef(K_is_active, T_boolean, TRUE, FALSE, PyNone) >>

ReqInvoice == ModelReq(S_invoice, S_Invoice, TRUE, InvoiceFields)
ReqOrder == ModelReq(S_order, S_order, FALSE, OrderFields)
ReqCatalog == ModelReq(S_catalog, S_models, TRUE, RegistryLikeFields)

\* the POST /models bodies of the lifecycle specification
ModelReqs ==
  { ReqInvoice, ReqOrder, ReqCatalog,
    ModelReq(S_order, S_invoice, TRUE, InvoiceFields),
    ModelReq(S_order, S_Users, TRUE, InvoiceFields),
    ModelReq(S_order, S_9lives, TRUE, InvoiceFields),
    ModelReq(S_order, S_order, TRUE,
             <<FieldDef(S_note, S_uuid, FALSE, FALSE, PyNone)>>) }

\* a {data: {...}} body: a function from keys to Python values
Data1(k, v) == (k :> v)
Data2(k1, v1, k2, v2) == (k1 :> v1) @@ (k2 :> v2)
Data3(k1, v1, k2, v2, k3, v3) == (k1 :> v1) @@ (k2 :> v2) @@ (k3 :> v3)
NoData == [k \in {} |-> PyNone]

\* bodies written for the fields of InvoiceFields
InvoicePayloads ==
  { Data1(S_amount, PyStr(S_19_99)),
    Data3(S_amount, PyInt(5), S_paid, PyStr(S_Yes), S_extra, PyStr(S_abc)),
    Data2(S_amount, PyStr(S_abc), S_paid, PyBool(TRUE)),
    Data2(S_amount, PyNone, S_paid, PyBool(FALSE)),
    Data1(S_paid, PyBool(TRUE)),
    NoData }

\* bodies written for the fields of OrderFields
OrderPayloads ==
  { Data1(S_qty, PyStr(S_12)),
    Data2(S_qty, PyInt(3), S_meta, PyStr(S_json_str)),
    Data2(S_qty, PyInt(7), S_meta, PyStr(S_json_obj)),
    Data2(S_qty, PyStr(S_12), S_meta, PyObj(<<"{", "}">>)),
    Data1(S_qty, PyStr(S_1_5)),
    Data1(S_meta, PyStr(S_json_bad)) }

\* bodies written for the fields of RegistryLikeFields
RegistryLikePayloads ==
  { Data3(K_name, PyStr(S_audit), K_table_name, PyStr(S_fields),
          K_is_active, PyBool(TRUE)) }

\* a PUT /models/{id} body: the attributes set (exclude_unset)
ModelUpdates ==
  { Data1(K_is_active, PyBool(FALSE)), Data1(K_is_active, PyBool(TRUE)),
    Data1(K_name, PyStr(S_order)) }

ModelIds == 1..MaxModelId
PageArgs == 0..MaxPage

\* the longest field list of a POST /models body of the model
MaxReqFields == SetMax({ Len(r.fields) : r \in ModelReqs })


(***************************************************************************)
(* Initial state and the handlers of src/api/dynamic_models.py.  A handler *)
(* is one step: requests are served one at a time.                         *)
(***************************************************************************)
Init ==
  /\ db = FreshDatabase
  /\ metadata = SystemTableNames
  /\ now = 0
  /\ resp = NoResp
  /\ workers = NoWorkers
  /\ limiter = NewLimiter(0)
  /\ history = NoHistory

\* the largest id the model lets table tn hand out; cap is the one of the
\* dynamic tables
IdCap(tn, cap) ==
  IF tn = N_dynamic_models THEN MaxRegistryId
  ELSE IF tn = N_dynamic_fields THEN MaxRegistryId * MaxReqFields
  ELSE cap

HasRoom(tn, cap) == tn \in DOMAIN db => NextRowId(db[tn].rows) <= IdCap(tn, cap)

FieldsRoom(n) ==
  N_dynamic_fields \in DOMAIN db =>
    NextRowId(db[N_dynamic_fields].rows) + n - 1 <= IdCap(N_dynamic_fields, 0)

\* the body after DynamicModelCreate's validators: table_name lowered
Validated(req) ==
  [req EXCEPT !.table_name = ValidateTableName(req.table_name).v.s]

\* what the 422 answer of POST /models reports: the table_name validator's
\* "is reserved", or another constraint of the body
ValidationError(req) ==
  IF /\ LengthOk(req.table_name)
     /\ MatchesTableNamePattern(req.table_name)
     /\ ~ValidateTableName(req.table_name).ok
  THEN "reserved" ELSE "invalid"

\* the handler of POST /models on database d and metadata meta: the
\* database and metadata it leaves and its response
create_model_handler(d, meta, req, clk, ddl_ok) ==
  IF ~ModelCreateValid(req)
  THEN [db |-> d, meta |-> meta,
        resp |-> Resp("create_model", 0, 0, 422, <<>>, ValidationError(req))]
  ELSE LET svc == create_dynamic_model(d, meta, Validated(req), clk, ddl_ok)
       IN  [db |-> svc.db, meta |-> svc.meta,
            resp |-> Resp("create_model",
                          IF svc.exc THEN 0 ELSE svc.body[1][K_id].n, 0,
                          StatusValueError(svc), svc.body, svc.ret)]

\* POST /models, while the registry has fewer than cap models
CreateModelUpTo(req, ddl_ok, cap) ==
  /\ N_dynamic_models \in DOMAIN db =>
       NextRowId(db[N_dynamic_models].rows) <= cap
  /\ FieldsRoom(Len(req.fields))
  /\ \E h \in {create_model_handler(db, metadata, req, now, ddl_ok)} :
       /\ db' = h.db
       /\ metadata' = h.meta
       /\ resp' = h.resp
  /\ UNCHANGED <<now, workers, limiter, history>>

\* POST /models
CreateModel(req, ddl_ok) == CreateModelUpTo(req, ddl_ok, MaxModelId)

\* GET /models
GetModels ==
  \E svc \in {get_all_dynamic_models(db)} :
      /\ resp' = Resp("get_models", 0, 0, IF svc.exc THEN 500 ELSE 200,
                      svc.body, svc.ret)
      /\ UNCHANGED <<db, metadata, now, workers, limiter, history>>

\* GET /models/{model_id}
GetModel(model_id) ==
  \E svc \in {get_dynamic_model_by_id(db, model_id)} :
      /\ resp' = Resp("get_model", model_id, 0, StatusGetModel(svc),
                      svc.body, svc.ret)
      /\ UNCHANGED <<db, metadata, now, workers, limiter, history>>

\* PUT /models/{model_id}
UpdateModel(model_id, update_data) ==
  \E svc \in {update_dynamic_model(db, model_id, update_data, now)} :
      /\ db' = svc.db
      /\ resp' = Resp("update_model", model_id, 0, StatusModelHandler(svc),
                      svc.body, svc.ret)
      /\ UNCHANGED <<metadata, now, workers, limiter, history>>

\* DELETE /models/{model_id}
DeleteModel(model_id, drop_ok, commit_ok) ==
  \E svc \in {delete_dynamic_model(db, model_id, drop_ok, commit_ok)} :
      /\ db' = svc.db
      /\ resp' = Resp("delete_model", model_id, 0, StatusModelHandler(svc),
                      svc.body, svc.ret)
      /\ UNCHANGED <<metadata, now, workers, limiter, history>>

\* the table a data request on model_id is served from, <<>> when the
\* model is not registered
TargetTable(model_id) ==
  LET q == QueryModel(db, model_id)
  IN  IF q.err \/ q.rows = <<>> THEN <<>> ELSE TableOf(q.rows[1])

\* POST /models/{model_id}/data
CreateData(model_id, data, cap) ==
  \E svc \in {create_record(db, model_id, data, now)} :
      /\ HasRoom(TargetTable(model_id), cap)
      /\ db' = svc.db
      /\ resp' = Resp("create_record", model_id,
                      IF svc.ret = "value" THEN svc.body[1][K_id].n ELSE 0,
                      StatusValueError(svc), svc.body, svc.ret)
      /\ UNCHANGED <<metadata, now, workers, limiter, history>>

\* GET /models/{model_id}/data?skip=&limit=
ListData(model_id, skip, limit) ==
  /\ IF ~PageQueryValid(skip, limit)
     THEN resp' = Resp("list_records", model_id, 0, 422, <<>>, "-")
     ELSE \E svc \in {get_all_records(db, model_id, skip, limit)} :
              resp' = Resp("list_records", model_id, 0, StatusValueError(svc),
                           svc.body, svc.ret)
  /\ UNCHANGED <<db, metadata, now, workers, limiter, history>>

\* GET /models/{model_id}/data/{record_id}
GetRecord(model_id, record_id) ==
  \E svc \in {get_record(db, model_id, record_id)} :
      /\ resp' = Resp("get_record", model_id, record_id,
                      StatusRecordHandler(svc), svc.body, svc.ret)
      /\ UNCHANGED <<db, metadata, now, workers, limiter, history>>

\* PUT /models/{model_id}/data/{record_id}
UpdateRecord(model_id, record_id, data) ==
  \E svc \in {update_record(db, model_id, record_id, data, now)} :
      /\ db' = svc.db
      /\ resp' = Resp("update_record", model_id, record_id,
                      StatusRecordHandler(svc), svc.body, svc.ret)
      /\ UNCHANGED <<metadata, now, workers, limiter, history>>

\* DELETE /models/{model_id}/data/{record_id}
DeleteRecord(model_id, record_id) ==
  \E svc \in {delete_record(db, model_id, record_id)} :
      /\ db' = svc.db
      /\ resp' = Resp("delete_record", model_id, record_id,
                      StatusRecordHandler(svc), svc.body, svc.ret)
      /\ UNCHANGED <<metadata, now, workers, limiter, history>>

\* the process is restarted: the model classes are imported again into a
\* new Base.metadata and startup() runs Base.metadata.create_all
Restart ==
  /\ metadata' = SystemTableNames
  /\ db' = [tn \in DOMAIN db \cup SystemTableNames |->
              IF tn \in DOMAIN db THEN db[tn] ELSE EmptyTable(SystemCols(tn))]
  /\ resp' = NoResp
  /\ UNCHANGED <<now, workers, limiter, history>>

(***************************************************************************)
(* Spec: the life cycle of dynamic models from an empty registry, with a   *)
(* few record requests.                                                    *)
(***************************************************************************)
LifecyclePayloads ==
  { Data1(S_amount, PyStr(S_19_99)), Data1(S_qty, PyStr(S_12)) }
  \cup RegistryLikePayloads

LifecycleRecordIds == 1..MaxLifecycleRecordId

Next ==
  \/ \E req \in ModelReqs, ddl_ok \in BOOLEAN : CreateModel(req, ddl_ok)
  \/ GetModels
  \/ \E m \in ModelIds : GetModel(m)
  \/ \E m \in ModelIds, u \in ModelUpdates : UpdateModel(m, u)
  \/ \E m \in ModelIds, drop_ok \in BOOLEAN, commit_ok \in BOOLEAN :
       DeleteModel(m, drop_ok, commit_ok)
  \/ \E m \in ModelIds, d \in LifecyclePayloads :
       CreateData(m, d, MaxLifecycleRecordId)
  \/ \E m \in ModelIds, r \in LifecycleRecordIds : GetRecord(m, r)
  \/ \E m \in ModelIds, r \in LifecycleRecordIds, d \in LifecyclePayloads :
       UpdateRecord(m, r, d)
  \/ \E m \in ModelIds, r \in LifecycleRecordIds : DeleteRecord(m, r)
  \/ \E m \in ModelIds : ListData(m, 0, LimitMax)
  \/ Restart

Spec == Init /\ [][Next]_vars

(***************************************************************************)
(* SpecData: the data gateway on one registered model.  The initial states *)
(* are the states POST /models leaves from the empty registry.             *)
(***************************************************************************)
DataModelReqs == {ReqInvoice, ReqOrder, ReqCatalog}

DataPayloads == InvoicePayloads \cup OrderPayloads \cup RegistryLikePayloads

RecordIds == 1..MaxRecordId

InitData ==
  \E req \in DataModelReqs :
    \E svc \in {create_dynamic_model(FreshDatabase, SystemTableNames,
                                     Validated(req), 0, TRUE)} :
        /\ db = svc.db
        /\ metadata = svc.meta
        /\ now = 0
        /\ resp = NoResp
        /\ workers = NoWorkers
        /\ limiter = NewLimiter(0)
        /\ history = NoHistory

\* the ids data requests are made for: the registered model, and the id a
\* row written into the registry through the gateway can get
DataModelIds == 1..2

NextData ==
  \/ \E m \in DataModelIds, d \in DataPayloads : CreateData(m, d, MaxRecordId)
  \/ \E m \in DataModelIds, s \in PageArgs, l \in PageArgs : ListData(m, s, l)
  \/ \E m \in DataModelIds, r \in RecordIds : GetRecord(m, r)
  \/ \E m \in DataModelIds, r \in RecordIds, d \in DataPayloads :
       UpdateRecord(m, r, d)
  \/ \E m \in DataModelIds, r \in RecordIds : DeleteRecord(m, r)
  \/ \E m \in DataModelIds, drop_ok \in BOOLEAN, commit_ok \in BOOLEAN :
       DeleteModel(m, drop_ok, commit_ok)

SpecData == InitData /\ [][NextData]_vars

(***************************************************************************)
(* What the properties read of a database state                            *)
(***************************************************************************)
RowsOf(d, tn) == IF tn \in DOMAIN d THEN d[tn].rows ELSE NoRows

\* the registry: the DynamicModel rows and the DynamicField rows
Registry(d) == <<RowsOf(d, N_dynamic_models), RowsOf(d, N_dynamic_fields)>>

IsRegistered(d, model_id) == model_id \in DOMAIN RowsOf(d, N_dynamic_models)

\* the physical table of a registered model
TableOfModel(d, model_id) == TableOf(d[N_dynamic_models].rows[model_id])

\* a registered model whose physical table exists
HasTable(d, model_id) ==
  IsRegistered(d, model_id) /\ TableOfModel(d, model_id) \in DOMAIN d

FieldIdsOf(d, model_id) ==
  { i \in DOMAIN RowsOf(d, N_dynamic_fields) :
      RowsOf(d, N_dynamic_fields)[i][K_model_id] = PyInt(model_id) }

\* the registry can be read and has no model of that id
ModelAbsent(d, model_id) ==
  N_dynamic_models \in DOMAIN d /\ ~IsRegistered(d, model_id)

\* the model's table can be read and has no row of that id
RecordAbsent(d, model_id, record_id) ==
  HasTable(d, model_id) /\ record_id \notin DOMAIN d[TableOfModel(d, model_id)].rows

DataOps ==
  {"create_record", "list_records", "get_record", "update_record",
   "delete_record"}

(***************************************************************************)
(* Properties of the registry life cycle, checked under Spec               *)
(***************************************************************************)
\* C1: create_dynamic_model is one logical unit.  A create call that ends
\* in an error leaves the registry (model and field rows) as it was before
\* the call, and every model a create call has registered has its physical
\* table when the call has finished: "registered, no table" is not
\* observable after a create call.
C1_CreateIsOneUnit ==
  [][resp'.op = "create_model" =>
       /\ resp'.status # 200 => Registry(db') = Registry(db)
       /\ \A i \in DOMAIN RowsOf(db', N_dynamic_models) \
                     DOMAIN RowsOf(db, N_dynamic_models) :
            TableOfModel(db', i) \in DOMAIN db']_vars

C3_SystemTablesApart ==
  /\ SystemTableNames \subseteq DOMAIN db
  /\ \A i \in DOMAIN RowsOf(db, N_dynamic_models) :
       TableOfModel(db, i) \notin SystemTableNames

\* C7: an absent id is answered with HTTP 404: PUT and DELETE /models/{id}
\* for an id that is not registered, and GET, PUT and DELETE
\* /models/{id}/data/{record_id} for a record id that is not in the table.
C7_AbsentIs404 ==
  [][/\ (resp'.op \in {"update_model", "delete_model"}
           /\ ModelAbsent(db, resp'.model_id)) => resp'.status = 404
     /\ (resp'.op \in {"get_record", "update_record", "delete_record"}
           /\ RecordAbsent(db, resp'.model_id, resp'.record_id))
          => resp'.status = 404]_vars

MissingRequired(fields, data) ==
  \E i \in 1..Len(fields) :
    /\ fields[i][K_is_required].n # 0
    /\ DataGet(data, fields[i][K_name].s).t = "none"

\* the call raised a validation error and wrote nothing
RejectedUnwritten(svc, before) ==
  /\ svc.exc
  /\ svc.ret \in {"missing", "invalid"}
  /\ svc.db = before

\* C4: create_record with a required field of the model absent from the
\* payload (or null in it) fails with a validation error (HTTP 400) and
\* inserts no row, whatever the other fields of the payload are.
C4_RequiredFieldEnforced ==
  \A m \in DataModelIds, d \in DataPayloads :
    \E fs \in {ModelFields(db, m)} :
      (IsRegistered(db, m) /\ ~fs.err /\ MissingRequired(fs.rows, d)) =>
        \E svc \in {create_record(db, m, d, now)} :
          /\ RejectedUnwritten(svc, db)
          /\ StatusValueError(svc) = 400

\* a POST /models/{id}/data was refused for a missing required field
C4_Witness ==
  /\ resp.op = "create_record"
  /\ resp.ret = "missing"
  /\ resp.status = 400
  /\ HasTable(db, resp.model_id)
  /\ \E i \in FieldIdsOf(db, resp.model_id) :
       db[N_dynamic_fields].rows[i][K_is_required].n # 0

\* Python's ==, under which True == 1 and False == 0
PyEq(a, b) == Bind(a) = Bind(b)

\* no value of the payload is already in a UNIQUE column of the table
NoUniqueClash(d, tn, vals) ==
  \A c \in DOMAIN vals \cap DOMAIN d[tn].cols :
    d[tn].cols[c].unique =>
      \A j \in DOMAIN d[tn].rows : d[tn].rows[j][c] # Bind(vals[c])

\* C5: round trip.  For a payload that passes validation, create_record
\* succeeds, the id it returns is the id of the row just inserted, and
\* get_record on that id yields, for each declared field supplied, the
\* coerced form of the supplied value.
C5_RoundTrip ==
  \A m \in DataModelIds, d \in DataPayloads :
    \E fs \in {ModelFields(db, m)} :
      (/\ HasTable(db, m) /\ ~fs.err
       /\ ValidateData(fs.rows, d, FALSE).ok
       /\ NoUniqueClash(db, TableOfModel(db, m),
                        ValidateData(fs.rows, d, FALSE).vals)) =>
        \E c \in {create_record(db, m, d, now)} :
          /\ ~c.exc
          /\ c.ret = "value"
          /\ c.body[1][K_id].n \in
               DOMAIN c.db[TableOfModel(db, m)].rows \
               DOMAIN db[TableOfModel(db, m)].rows
          /\ \E g \in {get_record(c.db, m, c.body[1][K_id].n)} :
               /\ g.ret = "value"
               /\ \A i \in 1..Len(fs.rows) :
                    \E v \in {DataGet(d, fs.rows[i][K_name].s)} :
                      v.t # "none" =>
                        PyEq(g.body[1][fs.rows[i][K_name].s],
                             ConvertValue(v, fs.rows[i][K_field_type].s).v)

\* a string with no form in the declared type: no decimal numeral for an
\* integer or float field, no JSON document for a json field
NotCoercible(value, field_type) ==
  /\ value.t = "str"
  /\ \/ field_type = T_integer /\ ~ParseInt(value.s).ok
     \/ field_type = T_float /\ ~ParseFloat(value.s).ok
     \/ field_type = T_json /\ ~JsonLoads(value.s).ok

HasNotCoercible(fields, data) ==
  \E i \in 1..Len(fields) :
    NotCoercible(DataGet(data, fields[i][K_name].s), fields[i][K_field_type].s)

\* C6: create_record and update_record with a payload value that cannot be
\* coerced to the declared type of its field fail with a validation error
\* (HTTP 400) before any write: the database is as before the call.
C6_CoercionFailureRejected ==
  \A m \in DataModelIds, d \in DataPayloads :
    \E fs \in {ModelFields(db, m)} :
      (IsRegistered(db, m) /\ ~fs.err /\ HasNotCoercible(fs.rows, d)) =>
        /\ \E svc \in {create_record(db, m, d, now)} :
             RejectedUnwritten(svc, db) /\ StatusValueError(svc) = 400
        /\ \A r \in RecordIds :
             \E svc \in {update_record(db, m, r, d, now)} :
               RejectedUnwritten(svc, db) /\ StatusRecordHandler(svc) = 400

\* a PUT on an existing record was refused for a value of the wrong type
C6_Witness ==
  /\ resp.op = "update_record"
  /\ resp.ret = "invalid"
  /\ resp.status = 400
  /\ HasTable(db, resp.model_id)
  /\ resp.record_id \in DOMAIN db[TableOfModel(db, resp.model_id)].rows

\* C9: delete_record returns true exactly when a row of that id existed,
\* and then the row is removed and every other row of the table is as
\* before, get_record for the id returns not-found (None) and a second
\* delete_record for the id returns false; when it returns false nothing
\* changed.
C9_DeleteRecordFinality ==
  \A m \in DataModelIds, r \in RecordIds :
    HasTable(db, m) =>
      \E tn \in {TableOfModel(db, m)} :
      \E d \in {delete_record(db, m, r)} :
        /\ ~d.exc
        /\ (d.ret = "true") <=> (r \in DOMAIN db[tn].rows)
        /\ d.ret # "true" => d.db = db
        /\ d.ret = "true" =>
             /\ tn \in DOMAIN d.db
             /\ d.db[tn].rows =
                  [j \in DOMAIN db[tn].rows \ {r} |-> db[tn].rows[j]]
             /\ get_record(d.db, m, r).ret = "none"
             /\ delete_record(d.db, m, r).ret = "false"

Max(a, b) == IF a > b THEN a ELSE b

\* the ids of the records list_records(skip, limit) returns, in order
PageIds(d, model_id, skip, limit) ==
  [i \in 1..Len(get_all_records(d, model_id, skip, limit).body) |->
     get_all_records(d, model_id, skip, limit).body[i][K_id].n]

\* the pages for skip = j * k, (j + 1) * k, ... up to n records, one after
\* the other
RECURSIVE PagesFrom(_, _, _, _, _)
PagesFrom(d, model_id, k, j, n) ==
  IF j * k >= n THEN <<>>
  ELSE PageIds(d, model_id, j * k, k) \o PagesFrom(d, model_id, k, j + 1, n)

\* C10: pagination.  With N records in the table, list_records(skip, k)
\* returns min(k, max(N - skip, 0)) records, by id descending, and the
\* pages for skip = 0, k, 2k, ... hold every record exactly once.
C10_Pagination ==
  \A m \in DataModelIds :
    HasTable(db, m) =>
      \E ids \in {DOMAIN db[TableOfModel(db, m)].rows} :
        \A k \in 1..MaxPage :
          /\ \A skip \in 0..MaxPage :
               \E svc \in {get_all_records(db, m, skip, k)} :
                 /\ PageQueryValid(skip, k)
                 /\ ~svc.exc
                 /\ StatusValueError(svc) = 200
                 /\ svc.db = db
                 /\ Len(svc.body) = Min(k, Max(Cardinality(ids) - skip, 0))
                 /\ \A i \in 1..Len(svc.body) :
                      /\ svc.body[i] = db[TableOfModel(db, m)].rows[svc.body[i][K_id].n]
                      /\ i > 1 => svc.body[i - 1][K_id].n > svc.body[i][K_id].n
          /\ PagesFrom(db, m, k, 0, Cardinality(ids)) = DescSeq(ids)

\* a second page was listed: one record, and not the newest of the table
C10_Witness ==
  /\ resp.op = "list_records"
  /\ resp.status = 200
  /\ Len(resp.body) = 1
  /\ HasTable(db, resp.model_id)
  /\ \E j \in DOMAIN db[TableOfModel(db, resp.model_id)].rows :
       j > resp.body[1][K_id].n

(***************************************************************************)
(* Properties of update_record, of undeclared keys and of defaults,        *)
(* checked under SpecData                                                  *)
(***************************************************************************)
FieldNames(fields) == { fields[i][K_name].s : i \in 1..Len(fields) }

\* the declared fields the payload supplies with a non-null value
Supplied(fields, data) ==
  { k \in FieldNames(fields) : DataGet(data, k).t # "none" }

\* the declared type of field k
TypeOfField(fields, k) ==
  fields[CHOOSE i \in 1..Len(fields) : fields[i][K_name].s = k][K_field_type].s

\* the payload passes _validate_data and its values can be stored: none is
\* held by another row in a UNIQUE column
Storable(d, tn, fields, data, is_update) ==
  /\ ValidateData(fields, data, is_update).ok
  /\ NoUniqueClash(d, tn, ValidateData(fields, data, is_update).vals)

\* every value the payload supplies for a declared field can be bound
AllBindable(fields, data, is_update) ==
  \A k \in DOMAIN ValidateData(fields, data, is_update).vals :
    Bindable(ValidateData(fields, data, is_update).vals[k])

\* C11: update_record on an existing record is a partial update.  For a
\* payload that supplies declared fields with non-null values (required
\* fields need not be among them) it sets exactly those fields, to their
\* coerced values, and leaves every other declared field, id and created_at
\* of the record, every other record and every other table unchanged.
C11_PartialUpdate ==
  \A m \in DataModelIds, r \in RecordIds, d \in DataPayloads :
    \E fs \in {ModelFields(db, m)} :
      (/\ HasTable(db, m) /\ ~fs.err
       /\ TableOfModel(db, m) \notin SystemTableNames
       /\ r \in DOMAIN db[TableOfModel(db, m)].rows
       /\ Supplied(fs.rows, d) # {}
       /\ Storable(db, TableOfModel(db, m), fs.rows, d, TRUE)) =>
        \E tn \in {TableOfModel(db, m)} :
        \E u \in {update_record(db, m, r, d, now)} :
          /\ ~u.exc
          /\ DOMAIN u.db = DOMAIN db
          /\ \A x \in DOMAIN db \ {tn} : u.db[x] = db[x]
          /\ DOMAIN u.db[tn].rows = DOMAIN db[tn].rows
          /\ \A j \in DOMAIN db[tn].rows \ {r} : u.db[tn].rows[j] = db[tn].rows[j]
          /\ \A c \in DOMAIN db[tn].cols :
               IF c \in Supplied(fs.rows, d)
               THEN PyEq(u.db[tn].rows[r][c],
                         ConvertValue(d[c], TypeOfField(fs.rows, c)).v)
               ELSE c # K_updated_at => u.db[tn].rows[r][c] = db[tn].rows[r][c]

\* C12: update_record on an existing record refreshes updated_at and
\* returns the record for every payload that passes validation, a payload
\* with no declared non-null field (empty, only undeclared keys, only
\* nulls) included.
C12_UpdateRefreshesUpdatedAt ==
  \A m \in DataModelIds, r \in RecordIds, d \in DataPayloads :
    \E fs \in {ModelFields(db, m)} :
      (/\ HasTable(db, m) /\ ~fs.err
       /\ TableOfModel(db, m) \notin SystemTableNames
       /\ r \in DOMAIN db[TableOfModel(db, m)].rows
       /\ Storable(db, TableOfModel(db, m), fs.rows, d, TRUE)
       /\ AllBindable(fs.rows, d, TRUE)) =>
        \E u \in {update_record(db, m, r, d, now)} :
          /\ ~u.exc
          /\ u.ret = "value"
          /\ u.body[1][K_id] = PyInt(r)
          /\ u.body[1][K_updated_at] = PyTime(now)
          /\ u.db[TableOfModel(db, m)].rows[r] = u.body[1]

\* the payload has a key that is no declared field of the model
HasUndeclared(fields, data) == DOMAIN data \ FieldNames(fields) # {}

\* the record returned has the columns of the table and nothing else
OnlyColumns(svc, d, tn) ==
  /\ ~svc.exc
  /\ svc.ret = "value"
  /\ DOMAIN svc.body[1] = DOMAIN d[tn].cols
  /\ svc.db[tn].cols = d[tn].cols

\* C13: create_record and update_record with a payload that has undeclared
\* keys succeed when the declared part of the payload is valid, and the
\* record stored and returned has no undeclared key.
C13_UndeclaredKeysIgnored ==
  \A m \in DataModelIds, d \in DataPayloads :
    \E fs \in {ModelFields(db, m)} :
      (/\ HasTable(db, m) /\ ~fs.err
       /\ TableOfModel(db, m) \notin SystemTableNames
       /\ HasUndeclared(fs.rows, d)) =>
        \E tn \in {TableOfModel(db, m)} :
          /\ (Storable(db, tn, fs.rows, d, FALSE)
                /\ AllBindable(fs.rows, d, FALSE)) =>
               OnlyColumns(create_record(db, m, d, now), db, tn)
          /\ \A r \in DOMAIN db[tn].rows \cap RecordIds :
               (Storable(db, tn, fs.rows, d, TRUE)
                  /\ AllBindable(fs.rows, d, TRUE)) =>
                 OnlyColumns(update_record(db, m, r, d, now), db, tn)

\* C14: a record created without a value for a non-required field that has
\* a default_value is returned with the default, parsed per the field type.
C14_DefaultApplied ==
  \A m \in DataModelIds, d \in DataPayloads :
    \E fs \in {ModelFields(db, m)} :
      (/\ HasTable(db, m) /\ ~fs.err
       /\ TableOfModel(db, m) \notin SystemTableNames) =>
        \E c \in {create_record(db, m, d, now)} :
          c.ret = "value" =>
            \A i \in 1..Len(fs.rows) :
              (/\ fs.rows[i][K_is_required].n = 0
               /\ fs.rows[i][K_default_value].t # "none"
               /\ DataGet(d, fs.rows[i][K_name].s).t = "none") =>
                PyEq(c.body[1][fs.rows[i][K_name].s],
                     ConvertValue(fs.rows[i][K_default_value],
                                  fs.rows[i][K_field_type].s).v)

(***************************************************************************)
(* Properties of the table materializer and of the registry list, checked  *)
(* under Spec                                                              *)
(***************************************************************************)
\* the POST /models bodies that are stored with the table of model_id
ReqsOfTable(d, model_id) ==
  { req \in ModelReqs :
      /\ ModelCreateValid(req)
      /\ PhysName(Validated(req).table_name) = TableOfModel(d, model_id) }

\* C19: the table materializer is idempotent.  Creating the table of a
\* model a second time in the process that created it, while the table
\* exists, does not raise and leaves the database, the rows of the table
\* included, as it was; deleting a model whose table is already absent
\* does not raise on the DROP TABLE statement.
C19_MaterializerIdempotent ==
  \A m \in ModelIds :
    /\ (/\ HasTable(db, m)
        /\ TableOfModel(db, m) \notin SystemTableNames
        /\ TableOfModel(db, m) \in metadata) =>
          \A req \in ReqsOfTable(db, m) :
            \E mat \in {create_database_table(db, metadata,
                          Validated(req).table_name, req.fields, TRUE)} :
              /\ ~mat.exc
              /\ mat.db = db
    /\ (/\ IsRegistered(db, m)
        /\ N_dynamic_fields \in DOMAIN db
        /\ TableOfModel(db, m) \notin DOMAIN db) =>
          delete_dynamic_model(db, m, TRUE, TRUE).ret = "true"

\* C20: GET /models returns every registered model, the models whose
\* is_active flag is false included: every registry row is in the list and
\* the list is as long as the registry.
C20_ListReturnsAllModels ==
  [][(resp'.op = "get_models" /\ resp'.status = 200) =>
       /\ Len(resp'.body) = Cardinality(DOMAIN RowsOf(db, N_dynamic_models))
       /\ \A i \in DOMAIN RowsOf(db, N_dynamic_models) :
            \E j \in 1..Len(resp'.body) :
              resp'.body[j] = RowsOf(db, N_dynamic_models)[i]]_vars

(***************************************************************************)
(* SpecRegistry: the registry with room for two models, from an empty      *)
(* registry: POST /models with names and table names that are taken,       *)
(* reserved or malformed, field types outside the enumeration, and the     *)
(* record requests that reach the registry tables through a model stored   *)
(* on them.                                                                *)
(***************************************************************************)
S_USERS == <<"U","S","E","R","S">>
S_Dynamic_Fields ==
  <<"D","y","n","a","m","i","c","_","F","i","e","l","d","s">>
S_String == <<"S","t","r","i","n","g">>

\* one field, named like the field_type column of the DynamicField table
FieldTypeField == <<FieldDef(K_field_type, T_string, FALSE, FALSE, PyNone)>>

ReqFieldCatalog == ModelReq(S_catalog, S_fields, TRUE, FieldTypeField)

\* POST /models bodies whose table_name is reserved, in several cases
ReservedReqs ==
  { ModelReq(S_order, S_Users, TRUE, InvoiceFields),
    ModelReq(S_audit, S_USERS, FALSE, <<>>),
    ModelReq(S_audit, N_dynamic_models, TRUE, OrderFields),
    ModelReq(S_audit, S_Dynamic_Fields, TRUE,
             <<FieldDef(S_note, S_uuid, FALSE, FALSE, PyNone)>>) }

\* POST /models bodies with a field_type outside the enumeration
UnknownTypeReqs ==
  { ModelReq(S_order, S_order, TRUE,
             <<FieldDef(S_note, S_uuid, FALSE, FALSE, PyNone)>>),
    ModelReq(S_audit, S_audit, TRUE,
             <<FieldDef(S_amount, T_float, TRUE, FALSE, PyNone),
               FieldDef(S_note, S_String, FALSE, FALSE, PyNone)>>) }

\* the POST /models bodies of the registry specification
RegistryReqs ==
  { ReqInvoice, ReqOrder, ReqFieldCatalog,
    ModelReq(S_order, S_invoice, TRUE, InvoiceFields),
    ModelReq(S_invoice, S_audit, TRUE, <<>>) }
  \cup ReservedReqs \cup UnknownTypeReqs

RegistryModelIds == 1..MaxRegistryId

\* bodies of PUT /models/{id}/data/{record_id} on the field catalog
FieldTypePayloads == { Data1(K_field_type, PyStr(S_uuid)) }

\* PUT /models/{id} bodies that set the name to one a POST body uses
RenameUpdates == { Data1(K_name, PyStr(S_order)) }

NextRegistry ==
  \/ \E req \in RegistryReqs, ddl_ok \in BOOLEAN :
       CreateModelUpTo(req, ddl_ok, MaxRegistryId)
  \/ GetModels
  \/ \E m \in RegistryModelIds, u \in RenameUpdates : UpdateModel(m, u)
  \/ \E m \in RegistryModelIds, drop_ok \in BOOLEAN, commit_ok \in BOOLEAN :
       DeleteModel(m, drop_ok, commit_ok)
  \/ \E m \in RegistryModelIds, r \in RegistryModelIds,
        d \in FieldTypePayloads : UpdateRecord(m, r, d)
  \/ Restart

SpecRegistry == Init /\ [][NextRegistry]_vars

(***************************************************************************)
(* Properties of POST /models, checked under SpecRegistry                  *)
(***************************************************************************)
\* the body asks for the name or the table_name of a registered model
Duplicates(d, req) ==
  \E i \in DOMAIN RowsOf(d, N_dynamic_models) :
    \/ RowsOf(d, N_dynamic_models)[i][K_name] = PyStr(req.name)
    \/ RowsOf(d, N_dynamic_models)[i][K_table_name] =
         PyStr(Validated(req).table_name)

\* C15: POST /models with a name or a table_name that a registered model
\* has is answered 400 and leaves the registry rows and every table as
\* they were; and no two registered models share a name or a table_name.
C15_NoDuplicateModels ==
  /\ \A req \in RegistryReqs, ddl_ok \in BOOLEAN :
       (ModelCreateValid(req) /\ Duplicates(db, req)) =>
         \E h \in {create_model_handler(db, metadata, req, now, ddl_ok)} :
           /\ h.resp.status = 400
           /\ h.db = db
  /\ \A i, j \in DOMAIN RowsOf(db, N_dynamic_models) :
       i # j =>
         /\ RowsOf(db, N_dynamic_models)[i][K_name] #
              RowsOf(db, N_dynamic_models)[j][K_name]
         /\ RowsOf(db, N_dynamic_models)[i][K_table_name] #
              RowsOf(db, N_dynamic_models)[j][K_table_name]

\* a POST /models was answered 400 and the registry holds one model, with
\* its table: the refused body added no row
C15_Witness ==
  /\ resp.op = "create_model"
  /\ resp.status = 400
  /\ DOMAIN RowsOf(db, N_dynamic_models) = {1}
  /\ HasTable(db, 1)
  /\ TableOfModel(db, 1) \notin SystemTableNames
  /\ \E req \in RegistryReqs : ModelCreateValid(req) /\ Duplicates(db, req)

\* the two texts are equal when letter case is ignored
SameLetters(a, b) ==
  /\ Len(a) = Len(b)
  /\ \A i \in 1..Len(a) : LowerChar(a[i]) = LowerChar(b[i])

\* the text is the name of a system table, in some letter case
ReservedAnyCase(s) == \E n \in SystemTableNames : SameLetters(s, n)

\* C17: POST /models with a table_name that is a reserved name in any
\* letter case is rejected (422), whatever the rest of the body is, and
\* leaves the registry and the tables as they were.
C17_ReservedNameRejected ==
  \A req \in RegistryReqs, ddl_ok \in BOOLEAN :
    ReservedAnyCase(req.table_name) =>
      \E h \in {create_model_handler(db, metadata, req, now, ddl_ok)} :
        /\ h.resp.status = 422
        /\ h.db = db
        /\ h.meta = metadata

\* a POST /models was refused for its reserved table_name while a model is
\* registered
C17_Witness ==
  /\ resp.op = "create_model"
  /\ resp.status = 422
  /\ resp.ret = "reserved"
  /\ DOMAIN RowsOf(db, N_dynamic_models) # {}

\* the body has a field whose field_type is outside the enumeration
HasUnknownType(req) ==
  \E i \in 1..Len(req.fields) : req.fields[i].field_type \notin FieldTypes

\* C18: the field_type of every registered DynamicField is one of string,
\* integer, boolean, text, datetime, float, json; POST /models with any
\* other field_type is rejected (422) with no registry row and no table
\* created.
C18_FieldTypeEnumerated ==
  /\ \A i \in DOMAIN RowsOf(db, N_dynamic_fields) :
       RowsOf(db, N_dynamic_fields)[i][K_field_type].s \in FieldTypes
  /\ \A req \in RegistryReqs, ddl_ok \in BOOLEAN :
       HasUnknownType(req) =>
         \E h \in {create_model_handler(db, metadata, req, now, ddl_ok)} :
           /\ h.resp.status = 422
           /\ h.db = db
           /\ h.meta = metadata

(***************************************************************************)
(* SpecRace: two server processes, each serving one POST /models, whose    *)
(* bodies have the same name or the same table_name.  A process has its    *)
(* own session and its own Base.metadata; the database admits one write    *)
(* transaction at a time.  A step is one statement of                      *)
(* create_dynamic_model: the flush, the commit, the table creation.        *)
(***************************************************************************)
Workers == {1, 2}

RaceReqs ==
  { ReqInvoice, ReqOrder,
    ModelReq(S_order, S_invoice, FALSE, OrderFields),
    ModelReq(S_invoice, S_audit, TRUE, <<>>) }

\* the bodies have the same name or, once lowered, the same table_name
Clash(r1, r2) ==
  \/ r1.name = r2.name
  \/ Validated(r1).table_name = Validated(r2).table_name

\* no transaction open
NoTxn == <<>>

\* a process serving POST /models: pc is its position ("start", "flushed",
\* "committed", "done"), txn the database as its open transaction sees it,
\* id the id of the DynamicModel it flushed, status its HTTP answer
Worker(pc, req, meta, txn, id, status) ==
  [pc |-> pc, req |-> req, meta |-> meta, txn |-> txn, id |-> id,
   status |-> status]

\* Base.metadata of a process about to serve req: as at startup, or still
\* holding the table of req from a model the process created and deleted
ProcessMetadata(req) ==
  { SystemTableNames,
    SystemTableNames \cup {PhysName(Validated(req).table_name)} }

InitRace ==
  /\ db = FreshDatabase
  /\ metadata = SystemTableNames
  /\ now = 0
  /\ resp = NoResp
  /\ \E r1 \in RaceReqs, r2 \in RaceReqs :
     \E m1 \in ProcessMetadata(r1), m2 \in ProcessMetadata(r2) :
       /\ Clash(r1, r2)
       /\ workers = [w \in Workers |->
                       Worker("start", IF w = 1 THEN r1 ELSE r2,
                              IF w = 1 THEN m1 ELSE m2, NoTxn, 0, 0)]
  /\ limiter = NewLimiter(0)
  /\ history = NoHistory

\* another process has a write transaction open
LockHeld(w) == \E v \in Workers \ {w} : workers[v].pc = "flushed"

\* db.add(db_model); db.flush(): the INSERT opens the write transaction; an
\* IntegrityError ends the call in the except clause (rollback, ValueError)
RaceFlush(w) ==
  /\ workers[w].pc = "start"
  /\ ~LockHeld(w)
  /\ \E fl \in {FlushModel(db, Validated(workers[w].req), now)} :
       workers' = [workers EXCEPT ![w] =
                     IF fl.err
                     THEN [@ EXCEPT !.pc = "done", !.status = 400]
                     ELSE [@ EXCEPT !.pc = "flushed", !.txn = fl.db,
                                    !.id = fl.n]]
  /\ UNCHANGED <<db, metadata, now, resp, limiter, history>>

\* db.flush() while another process holds the write lock, past the busy
\* timeout: "database is locked", handled by the except clause
RaceBusy(w) ==
  /\ workers[w].pc = "start"
  /\ LockHeld(w)
  /\ workers' = [workers EXCEPT ![w] = [@ EXCEPT !.pc = "done", !.status = 400]]
  /\ UNCHANGED <<db, metadata, now, resp, limiter, history>>

\* db.commit(): the registry rows of the transaction become visible
RaceCommit(w) ==
  /\ workers[w].pc = "flushed"
  /\ db' = [tn \in DOMAIN db |->
              IF tn \in {N_dynamic_models, N_dynamic_fields}
              THEN workers[w].txn[tn] ELSE db[tn]]
  /\ workers' = [workers EXCEPT ![w] = [@ EXCEPT !.pc = "committed",
                                                 !.txn = NoTxn]]
  /\ UNCHANGED <<metadata, now, resp, limiter, history>>

\* _create_database_table and the end of the call: 200, or 400 from the
\* except clause, whose rollback finds the transaction already committed
RaceCreateTable(w, ddl_ok) ==
  /\ workers[w].pc = "committed"
  /\ \E mat \in {create_database_table(db, workers[w].meta,
                   Validated(workers[w].req).table_name,
                   workers[w].req.fields, ddl_ok)} :
       /\ db' = mat.db
       /\ workers' = [workers EXCEPT ![w] =
                        [@ EXCEPT !.pc = "done", !.meta = mat.meta,
                                  !.status = StatusValueError(mat)]]
  /\ UNCHANGED <<metadata, now, resp, limiter, history>>

NextRace ==
  \/ \E w \in Workers : RaceFlush(w)
  \/ \E w \in Workers : RaceBusy(w)
  \/ \E w \in Workers : RaceCommit(w)
  \/ \E w \in Workers, ddl_ok \in BOOLEAN : RaceCreateTable(w, ddl_ok)

SpecRace == InitRace /\ [][NextRace]_vars

(***************************************************************************)
(* Properties of concurrent POST /models, checked under SpecRace           *)
(***************************************************************************)
\* the process answered 200
Succeeded(w) == workers[w].pc = "done" /\ workers[w].status = 200

\* C16: of two concurrent POST /models with the same name or the same
\* table_name at most one succeeds; once both are answered, every registry
\* row is the row of a request that succeeded (a rejected request leaves
\* no DynamicModel and no DynamicField row), and the table of the request
\* that succeeded is the table it defined, untouched by the other.
C16_RaceHasOneWinner ==
  /\ Cardinality({ w \in Workers : Succeeded(w) }) <= 1
  /\ (\A w \in Workers : workers[w].pc = "done") =>
       /\ \A i \in DOMAIN RowsOf(db, N_dynamic_models) :
            \E w \in Workers : Succeeded(w) /\ workers[w].id = i
       /\ \A i \in DOMAIN RowsOf(db, N_dynamic_fields) :
            \E w \in Workers :
              /\ Succeeded(w)
              /\ RowsOf(db, N_dynamic_fields)[i][K_model_id] =
                   PyInt(workers[w].id)
       /\ \A w \in Workers :
            Succeeded(w) =>
              /\ HasTable(db, workers[w].id)
              /\ db[TableOfModel(db, workers[w].id)] =
                   EmptyTable(TableCols(workers[w].req.fields))

(***************************************************************************)
(* Further properties of the registry life cycle, checked under Spec       *)
(***************************************************************************)
\* the registry rows of the body can be committed on d and the creation of
\* its table then raises
TableCreationFails(d, meta, req, clk, ddl_ok) ==
  /\ ModelCreateValid(req)
  /\ ~FlushModel(d, Validated(req), clk).err
  /\ create_database_table(FlushModel(d, Validated(req), clk).db, meta,
       Validated(req).table_name, req.fields, ddl_ok).exc

\* C21: a POST /models that fails in table creation, after its registry
\* rows were committed, is answered 500, not the 400 of a duplicate name.
C21_TableFailureIs500 ==
  \A req \in ModelReqs, ddl_ok \in BOOLEAN :
    TableCreationFails(db, metadata, req, now, ddl_ok) =>
      create_model_handler(db, metadata, req, now, ddl_ok).resp.status = 500

(***************************************************************************)
(* Properties of unique fields, of boolean coercion and of is_active,      *)
(* checked under SpecData                                                  *)
(***************************************************************************)
\* the names of the fields declared is_unique
UniqueFieldNames(fields) ==
  { fields[i][K_name].s : i \in { j \in 1..Len(fields) :
                                    fields[j][K_is_unique].n # 0 } }

\* the validated payload has, in a field declared is_unique, the value of
\* a record of the table other than record `self`
UniqueClash(d, tn, fields, vals, self) ==
  \E c \in UniqueFieldNames(fields) \cap DOMAIN vals :
    \E j \in DOMAIN d[tn].rows \ {self} : PyEq(d[tn].rows[j][c], vals[c])

\* C22: in a materialized table no two records have the same value in a
\* field declared is_unique; a create_record or update_record that would
\* repeat such a value is answered 400 and leaves the database unchanged.
C22_UniqueFieldEnforced ==
  \A m \in DataModelIds :
    \E fs \in {ModelFields(db, m)} :
      (/\ HasTable(db, m) /\ ~fs.err
       /\ TableOfModel(db, m) \notin SystemTableNames) =>
        \E tn \in {TableOfModel(db, m)} :
          /\ \A c \in UniqueFieldNames(fs.rows) :
             \A i, j \in DOMAIN db[tn].rows :
               (i # j /\ db[tn].rows[i][c].t # "none") =>
                 db[tn].rows[i][c] # db[tn].rows[j][c]
          /\ \A d \in DataPayloads :
               (/\ ValidateData(fs.rows, d, FALSE).ok
                /\ UniqueClash(db, tn, fs.rows,
                               ValidateData(fs.rows, d, FALSE).vals, 0)) =>
                 \E svc \in {create_record(db, m, d, now)} :
                   /\ svc.exc
                   /\ StatusValueError(svc) = 400
                   /\ svc.db = db
          /\ \A d \in DataPayloads, r \in DOMAIN db[tn].rows \cap RecordIds :
               (/\ ValidateData(fs.rows, d, TRUE).ok
                /\ UniqueClash(db, tn, fs.rows,
                               ValidateData(fs.rows, d, TRUE).vals, r)) =>
                 \E svc \in {update_record(db, m, r, d, now)} :
                   /\ svc.exc
                   /\ StatusRecordHandler(svc) = 400
                   /\ svc.db = db

\* a PUT /models/{id}/data/{record_id} was answered 400 on a table of two
\* records, where one of the request bodies gives the record the value the
\* other record has in a field declared is_unique
C22_Witness ==
  /\ resp.op = "update_record"
  /\ resp.status = 400
  /\ resp.ret = "error"
  /\ HasTable(db, resp.model_id)
  /\ TableOfModel(db, resp.model_id) \notin SystemTableNames
  /\ Cardinality(DOMAIN db[TableOfModel(db, resp.model_id)].rows) = 2
  /\ \E d \in DataPayloads :
       /\ ValidateData(ModelFields(db, resp.model_id).rows, d, TRUE).ok
       /\ AllBindable(ModelFields(db, resp.model_id).rows, d, TRUE)
       /\ UniqueClash(db, TableOfModel(db, resp.model_id),
            ModelFields(db, resp.model_id).rows,
            ValidateData(ModelFields(db, resp.model_id).rows, d, TRUE).vals,
            resp.record_id)

(***************************************************************************)
(* SpecCoerce: records of the invoice model written with every kind of     *)
(* value in its boolean field.                                             *)
(***************************************************************************)
S_true == <<"t","r","u","e">>
S_True == <<"T","r","u","e">>
S_TRUE == <<"T","R","U","E">>
S_YES == <<"Y","E","S">>
S_On == <<"O","n">>
S_no == <<"n","o">>
S_true_padded == <<" ","t","r","u","e">>

\* values a caller can give for a boolean field
BoolInputs ==
  { PyBool(TRUE), PyBool(FALSE),
    PyStr(S_true), PyStr(S_True), PyStr(S_TRUE), PyStr(<<"1">>),
    PyStr(S_Yes), PyStr(S_YES), PyStr(S_On),
    PyStr(S_false), PyStr(<<"0">>), PyStr(<<>>), PyStr(S_no), PyStr(S_12),
    PyStr(S_true_padded),
    PyInt(1), PyInt(0), PyInt(2), PyInt(-1), PyFloat(1, 0), PyFloat(5, 1),
    PyObj(<<"{", "}">>) }

\* bodies for the invoice model with the boolean field given
BoolPayloads == { Data2(S_amount, PyInt(5), S_paid, v) : v \in BoolInputs }

InitCoerce ==
  \E svc \in {create_dynamic_model(FreshDatabase, SystemTableNames,
                                   Validated(ReqInvoice), 0, TRUE)} :
      /\ db = svc.db
      /\ metadata = svc.meta
      /\ now = 0
      /\ resp = NoResp
      /\ workers = NoWorkers
      /\ limiter = NewLimiter(0)
      /\ history = NoHistory

NextCoerce ==
  \/ \E d \in BoolPayloads : CreateData(1, d, MaxRecordId)
  \/ \E r \in RecordIds, d \in BoolPayloads : UpdateRecord(1, r, d)
  \/ \E r \in RecordIds : GetRecord(1, r)
  \/ \E r \in RecordIds : DeleteRecord(1, r)

SpecCoerce == InitCoerce /\ [][NextCoerce]_vars

\* the value is the native true, the number 1, or one of the words true,
\* 1, yes, on in some letter case
MeansTrue(v) ==
  \/ v.t = "bool" /\ v.n = 1
  \/ v.t \in {"int", "float"} /\ v.n = 1 /\ v.e = 0
  \/ v.t = "str" /\ \E word \in TrueWords : SameLetters(v.s, word)

\* C23: boolean coercion.  A record written with value v in a boolean
\* field comes back true exactly when v is the native true, the number 1 or
\* one of the strings "true", "1", "yes", "on" in any letter case, and false
\* for every other value.
C23_BooleanCoercion ==
  \A v \in BoolInputs :
    \E c \in {create_record(db, 1, Data2(S_amount, PyInt(5), S_paid, v), now)} :
      /\ c.ret = "value"
      /\ PyEq(c.body[1][S_paid], PyBool(MeansTrue(v)))

(***************************************************************************)
(* Properties of PUT /models/{id} and of the columns of a table, checked   *)
(* under Spec.                                                             *)
(***************************************************************************)
\* the attributes a PUT /models/{id} body can set (DynamicModelUpdate)
UpdatableAttrs == {K_name, K_description, K_is_active}

\* the registry row after the call differs from the one before in the
\* attributes of the body and in updated_at at most
OnlySupplied(before, after, update_data) ==
  \A k \in DOMAIN before :
    k \notin (DOMAIN update_data \cup {K_updated_at}) => after[k] = before[k]

\* C25: updating a model changes only the attributes the body supplies among
\* name, description and is_active; the model's id, table_name, field
\* definitions, the columns of its table and its records stay as they were;
\* and the columns of the table of a model are the fields of the model plus
\* id, created_at and updated_at.
C25_UpdateKeepsStructure ==
  \A m \in ModelIds :
    IsRegistered(db, m) =>
      /\ \A u \in ModelUpdates :
           \E svc \in {update_dynamic_model(db, m, u, now)} :
             /\ ~svc.exc
             /\ IsRegistered(svc.db, m)
             /\ DOMAIN u \subseteq UpdatableAttrs
             /\ OnlySupplied(db[N_dynamic_models].rows[m],
                             svc.db[N_dynamic_models].rows[m], u)
             /\ RowsOf(svc.db, N_dynamic_fields) = RowsOf(db, N_dynamic_fields)
             /\ DOMAIN svc.db = DOMAIN db
             /\ HasTable(db, m) =>
                  svc.db[TableOfModel(db, m)] = db[TableOfModel(db, m)]
      /\ (HasTable(db, m) /\ ~ModelFields(db, m).err) =>
           DOMAIN db[TableOfModel(db, m)].cols =
             FieldNames(ModelFields(db, m).rows) \cup DOMAIN BaseCols

ActiveUpdates == { u \in ModelUpdates : DOMAIN u = {K_is_active} }

\* two calls of a data service end alike: the same outcome, the same value
\* returned and the same table tn left behind
SameOutcome(a, b, tn) ==
  /\ a.exc = b.exc
  /\ a.ret = b.ret
  /\ a.body = b.body
  /\ tn \in DOMAIN a.db <=> tn \in DOMAIN b.db
  /\ tn \in DOMAIN a.db => a.db[tn] = b.db[tn]

\* C29: is_active does not gate the data gateway.  Setting is_active of a
\* model to true or to false changes no record of its table, and each of
\* create_record, get_record, get_all_records, update_record and
\* delete_record ends after the change as it does before it.
C29_IsActiveNeverGates ==
  \A m \in DataModelIds, u \in ActiveUpdates :
    HasTable(db, m) =>
      \E tn \in {TableOfModel(db, m)} :
      \E t \in {update_dynamic_model(db, m, u, now)} :
        /\ ~t.exc
        /\ t.db[N_dynamic_models].rows[m][K_is_active] = Bind(u[K_is_active])
        /\ t.db[tn] = db[tn]
        /\ \A d \in DataPayloads :
             SameOutcome(create_record(t.db, m, d, now),
                         create_record(db, m, d, now), tn)
        /\ \A r \in RecordIds :
             /\ SameOutcome(get_record(t.db, m, r), get_record(db, m, r), tn)
             /\ SameOutcome(delete_record(t.db, m, r),
                            delete_record(db, m, r), tn)
             /\ \A d \in DataPayloads :
                  SameOutcome(update_record(t.db, m, r, d, now),
                              update_record(db, m, r, d, now), tn)
        /\ \A sk \in PageArgs, l \in PageArgs :
             SameOutcome(get_all_records(t.db, m, sk, l),
                         get_all_records(db, m, sk, l), tn)

(***************************************************************************)
(* SpecAuth: the endpoints of src/api/dynamic_models.py behind their       *)
(* Depends(has_permission(resource, action)).  The users, their roles and  *)
(* the permissions of the roles are those of the seeded database; no       *)
(* endpoint of the dynamic-model API writes them.                          *)
(***************************************************************************)
R_dynamic_model == <<"d","y","n","a","m","i","c","_","m","o","d","e","l">>
R_dynamic_data == <<"d","y","n","a","m","i","c","_","d","a","t","a">>
A_create == <<"c","r","e","a","t","e">>
A_read == <<"r","e","a","d">>
A_update == <<"u","p","d","a","t","e">>
A_delete == <<"d","e","l","e","t","e">>

\* permission_name = f"{resource}:{action}"
PermissionName(resource, action) == resource \o <<":">> \o action

AuthActions == {A_create, A_read, A_update, A_delete}

\* Role.permissions of the roles of the database
RolePermissions ==
  [ admin |-> { PermissionName(r, a) :
                  r \in {R_dynamic_model, R_dynamic_data}, a \in AuthActions },
    viewer |-> { PermissionName(R_dynamic_model, A_read),
                 PermissionName(R_dynamic_data, A_read) },
    clerk |-> { PermissionName(R_dynamic_data, A_create),
                PermissionName(R_dynamic_data, A_update) } ]

\* the rows of users: is_active and User.roles
AuthUsers ==
  [ alice |-> [is_active |-> TRUE, roles |-> {"admin"}],
    bob |-> [is_active |-> TRUE, roles |-> {"viewer"}],
    carol |-> [is_active |-> FALSE, roles |-> {"admin"}],
    dave |-> [is_active |-> TRUE, roles |-> {}],
    erin |-> [is_active |-> TRUE, roles |-> {"viewer", "clerk"}] ]

\* a bearer token: verified is what jwt.decode and the expiry test of
\* verify_token find, sub the "sub" of its payload ("" when it has none)
Token(verified, sub) == [verified |-> verified, sub |-> sub]

Tokens ==
  { Token(TRUE, u) : u \in DOMAIN AuthUsers }
  \cup { Token(FALSE, "alice"), Token(TRUE, ""), Token(TRUE, "zed") }

\* Role.has_permission
RoleHasPermission(role, permission_name) ==
  permission_name \in RolePermissions[role]

\* User.has_permission: some role of the user has the permission
UserHasPermission(username, permission_name) ==
  \E role \in AuthUsers[username].roles :
    RoleHasPermission(role, permission_name)

\* get_current_user: the status of the HTTPException it raises, 0 when it
\* returns the user
get_current_user(token) ==
  IF ~token.verified THEN 401
  ELSE IF token.sub = "" THEN 401
  ELSE IF token.sub \notin DOMAIN AuthUsers THEN 401
  ELSE IF ~AuthUsers[token.sub].is_active THEN 401
  ELSE 0

\* the status the denial branch of permission_dependency ends with: the
\* message of logger.warning calls current_user.get_permissions(), which
\* class User does not define, so AttributeError leaves the dependency
\* before HTTPException(403) is raised
StatusPermissionDenied == 500

\* the status of the 403 the denial branch is written to raise
StatusForbidden == 403

\* has_permission(resource, action) as a dependency of a request carrying
\* the token: the status the request is answered with before the handler
\* runs, 0 when the handler runs
permission_dependency(token, resource, action) ==
  IF get_current_user(token) # 0 THEN get_current_user(token)
  ELSE IF ~UserHasPermission(token.sub, PermissionName(resource, action))
       THEN StatusPermissionDenied
       ELSE 0

Endpoints ==
  { "create_model", "get_models", "get_model", "update_model", "delete_model",
    "create_record", "list_records", "get_record", "update_record",
    "delete_record" }

SchemaEndpoints ==
  {"create_model", "get_models", "get_model", "update_model", "delete_model"}

\* the resource and the action of the Depends(has_permission(...)) of the
\* endpoint
ResourceOf(ep) ==
  IF ep \in SchemaEndpoints THEN R_dynamic_model ELSE R_dynamic_data

ActionOf(ep) ==
  IF ep \in {"create_model", "create_record"} THEN A_create
  ELSE IF ep \in {"update_model", "update_record"} THEN A_update
  ELSE IF ep \in {"delete_model", "delete_record"} THEN A_delete
  ELSE A_read

AuthModelReqs == {ReqInvoice, ReqOrder}
AuthPayloads == { Data1(S_amount, PyStr(S_19_99)), Data1(S_qty, PyStr(S_12)) }

\* the handler of the endpoint, on some request
Serve(ep) ==
  \/ /\ ep = "create_model"
     /\ \E req \in AuthModelReqs, ddl_ok \in BOOLEAN : CreateModel(req, ddl_ok)
  \/ ep = "get_models" /\ GetModels
  \/ ep = "get_model" /\ \E m \in ModelIds : GetModel(m)
  \/ /\ ep = "update_model"
     /\ \E m \in ModelIds, u \in ModelUpdates : UpdateModel(m, u)
  \/ /\ ep = "delete_model"
     /\ \E m \in ModelIds, drop_ok \in BOOLEAN, commit_ok \in BOOLEAN :
          DeleteModel(m, drop_ok, commit_ok)
  \/ /\ ep = "create_record"
     /\ \E m \in ModelIds, d \in AuthPayloads :
          CreateData(m, d, MaxLifecycleRecordId)
  \/ /\ ep = "list_records"
     /\ \E m \in ModelIds : ListData(m, 0, LimitMax)
  \/ /\ ep = "get_record"
     /\ \E m \in ModelIds, r \in LifecycleRecordIds : GetRecord(m, r)
  \/ /\ ep = "update_record"
     /\ \E m \in ModelIds, r \in LifecycleRecordIds, d \in AuthPayloads :
          UpdateRecord(m, r, d)
  \/ /\ ep = "delete_record"
     /\ \E m \in ModelIds, r \in LifecycleRecordIds : DeleteRecord(m, r)

\* the request is answered by the dependency: the handler does not run
Refuse(ep, status) ==
  /\ resp' = Resp(ep, 0, 0, status, <<>>, "refused")
  /\ UNCHANGED <<db, metadata, now, workers, limiter, history>>

\* a request to the endpoint that carries the token
Request(token, ep) ==
  \E st \in {permission_dependency(token, ResourceOf(ep), ActionOf(ep))} :
    \/ st = 0 /\ Serve(ep)
    \/ st # 0 /\ Refuse(ep, st)

NextAuth == \E token \in Tokens, ep \in Endpoints : Request(token, ep)

SpecAuth == Init /\ [][NextAuth]_vars

\* the token is the one of a user of the database who is active
Authenticated(token) ==
  /\ token.verified
  /\ token.sub \in DOMAIN AuthUsers
  /\ AuthUsers[token.sub].is_active

\* the caller is authenticated and one of their roles holds the capability
\* of the endpoint
Capable(token, ep) ==
  /\ Authenticated(token)
  /\ \E role \in AuthUsers[token.sub].roles :
       PermissionName(ResourceOf(ep), ActionOf(ep)) \in RolePermissions[role]

\* C24: an endpoint neither changes the registry, the tables and the
\* records nor returns any of them unless the caller is authenticated,
\* active and holds the capability of the endpoint through a role; and an
\* authenticated, active caller who lacks the capability is answered 403.
C24_CapabilityRequired ==
  [][\A token \in Tokens, ep \in Endpoints :
       (Request(token, ep) /\ ~Capable(token, ep)) =>
         /\ db' = db
         /\ metadata' = metadata
         /\ resp'.body = <<>>
         /\ resp'.status \notin {0, 200}
         /\ Authenticated(token) => resp'.status = StatusForbidden]_vars

(***************************************************************************)
(* SpecLimiter: one RateLimiter serving requests of two clients from two   *)
(* addresses while the clock advances.                                     *)
(***************************************************************************)
LimiterReqs ==
  { LimiterReq("10.0.0.1", 0, "curl/8.0"),
    LimiterReq("10.0.0.1", 7, "curl/8.0"),
    LimiterReq("10.0.0.2", 7, "Mozilla/5.0") }

\* the times a request of the client was admitted
AdmittedOf(h, client_id) ==
  IF client_id \in DOMAIN h THEN h[client_id] ELSE <<>>

\* rate_limit_middleware calls is_allowed for the request
IsAllowed(req) ==
  \E r \in {is_allowed(limiter, req, now)} :
    /\ limiter' = r.limiter
    /\ history' =
         IF r.allowed
         THEN (ClientIdentifier(req) :>
                 Append(AdmittedOf(history, ClientIdentifier(req)), now))
              @@ history
         ELSE history
    /\ resp' = Resp("is_allowed", 0, 0, IF r.allowed THEN 200 ELSE 429,
                    <<req>>, r.error)
    /\ UNCHANGED <<db, metadata, now, workers>>

\* a second passes
Tick ==
  /\ now < MaxTime
  /\ now' = now + 1
  /\ UNCHANGED <<db, metadata, resp, workers, limiter, history>>

NextLimiter ==
  \/ \E req \in LimiterReqs : IsAllowed(req)
  \/ Tick

SpecLimiter == Init /\ [][NextLimiter]_vars

\* of any MaxRequests + 1 admitted requests of a client the last is at
\* least WindowSeconds after the first
WindowBound(h) ==
  \A c \in DOMAIN h :
    \A i, j \in DOMAIN h[c] :
      j - i >= MaxRequests => h[c][j] - h[c][i] >= WindowSeconds

\* the number of requests of the client admitted in the window that ends
\* at time t
AdmittedInWindow(h, client_id, t) ==
  Cardinality({ i \in DOMAIN AdmittedOf(h, client_id) :
                  AdmittedOf(h, client_id)[i] > t - WindowSeconds })

\* the address is blocked at time t
Blocked(L, client_ip, t) ==
  /\ client_ip \in DOMAIN L.blocked_ips
  /\ t - L.blocked_ips[client_ip] < WindowSeconds

\* C30: is_allowed admits at most max_requests requests of a client in a
\* window of window_seconds; a denied request is not recorded; the request
\* that finds the limit reached blocks the address of the client; and a
\* request from a blocked address is denied, and leaves the time of the
\* block as it is, until window_seconds have passed since the block was set.
C30_SlidingWindow ==
  [][(resp'.op = "is_allowed" /\ now' = now) =>
       \E req \in {resp'.body[1]} :
       \E c \in {ClientIdentifier(resp'.body[1])} :
         /\ WindowBound(history')
         /\ resp'.status = 429 =>
              /\ history' = history
              /\ Len(RequestsOf(limiter', c)) <= Len(RequestsOf(limiter, c))
         /\ (/\ ~Blocked(limiter, req.client_ip, now)
             /\ AdmittedInWindow(history, c, now) >= MaxRequests) =>
              /\ resp'.status = 429
              /\ Blocked(limiter', req.client_ip, now)
              /\ limiter'.blocked_ips[req.client_ip] = now
         /\ Blocked(limiter, req.client_ip, now) =>
              /\ resp'.status = 429
              /\ limiter'.blocked_ips[req.client_ip] =
                   limiter.blocked_ips[req.client_ip]]_vars

\* a request from an address blocked a second or more before was denied,
\* while the client had been admitted MaxRequests times before the block
C30_Witness ==
  /\ resp.op = "is_allowed"
  /\ resp.status = 429
  /\ resp.ret = "IP temporarily blocked"
  /\ resp.body[1].client_ip \in DOMAIN limiter.blocked_ips
  /\ now - limiter.blocked_ips[resp.body[1].client_ip] >= 1
  /\ Len(AdmittedOf(history, ClientIdentifier(resp.body[1]))) >= MaxRequests

(***************************************************************************)
(* SpecGap: one process serves a POST /models statement by statement (the  *)
(* flush, the commit, the table creation) while another process serves     *)
(* data requests on the model being created.                               *)
(***************************************************************************)
GapReqs == {ReqInvoice, ReqOrder, ReqCatalog}

InitGap ==
  /\ db = FreshDatabase
  /\ metadata = SystemTableNames
  /\ now = 0
  /\ resp = NoResp
  /\ \E req \in GapReqs : \E m \in ProcessMetadata(req) :
       workers = [w \in Workers |->
                    IF w = 1 THEN Worker("start", req, m, NoTxn, 0, 0)
                    ELSE Worker("idle", req, SystemTableNames, NoTxn, 0, 0)]
  /\ limiter = NewLimiter(0)
  /\ history = NoHistory

NextGap ==
  \/ RaceFlush(1)
  \/ RaceCommit(1)
  \/ \E ddl_ok \in BOOLEAN : RaceCreateTable(1, ddl_ok)
  \/ \E d \in LifecyclePayloads : CreateData(1, d, MaxLifecycleRecordId)
  \/ \E r \in LifecycleRecordIds : GetRecord(1, r)
  \/ \E r \in LifecycleRecordIds, d \in LifecyclePayloads : UpdateRecord(1, r, d)
  \/ \E r \in LifecycleRecordIds : DeleteRecord(1, r)
  \/ ListData(1, 0, LimitMax)

SpecGap == InitGap /\ [][NextGap]_vars

\* a POST /models has committed the registry rows of model_id and has not
\* yet created its table
InGap(model_id) ==
  \E w \in Workers :
    workers[w].pc = "committed" /\ workers[w].id = model_id

\* C26: a data request on a model served between the commit of the model's
\* registry rows and the creation of its table by a concurrent POST /models
\* is answered with an error and changes nothing; and whenever a POST
\* /models has been answered 200, the table of its model exists.
C26_GapIsAnError ==
  [][/\ (/\ resp'.op \in DataOps
         /\ workers' = workers
         /\ InGap(resp'.model_id)) =>
          /\ resp'.status >= 400
          /\ db' = db
     /\ \A w \in Workers :
          (workers'[w].pc = "done" /\ workers'[w].status = 200) =>
            HasTable(db', workers'[w].id)]_vars

(***************************************************************************)
(* SpecDrop: process 1 serves DELETE /models/1 statement by statement (the *)
(* query, the DROP TABLE, the registry delete) while process 2 serves one  *)
(* write request on the records of model 1, statement by statement (the    *)
(* query and validation, the write, the read of the written record).       *)
(***************************************************************************)
\* a write request on the records of model 1
RecordWrite(op, record_id, data) ==
  [op |-> op, record_id |-> record_id, data |-> data]

RecordWrites ==
  { RecordWrite("create_record", 0, d) : d \in LifecyclePayloads }
  \cup { RecordWrite("update_record", 1, d) : d \in LifecyclePayloads }
  \cup { RecordWrite("delete_record", 1, NoData) }

DropModelReqs == {ReqInvoice, ReqOrder}

\* model 1 is registered with its table and one record
InitDrop ==
  /\ now = 0
  /\ resp = NoResp
  /\ limiter = NewLimiter(0)
  /\ history = NoHistory
  /\ \E req \in DropModelReqs, d \in LifecyclePayloads, wr \in RecordWrites :
     \E cm \in {create_dynamic_model(FreshDatabase, SystemTableNames,
                                     Validated(req), 0, TRUE)} :
     \E rec \in {create_record(cm.db, 1, d, 0)} :
       /\ ~rec.exc
       /\ db = rec.db
       /\ metadata = cm.meta
       /\ workers = [w \in Workers |->
                       IF w = 1
                       THEN Worker("start", <<>>, cm.meta, NoTxn, 1, 0)
                       ELSE Worker("start", wr, SystemTableNames, NoTxn, 0, 0)]

\* the call of process w ends and the request is answered
Answer(w, status) ==
  workers' = [workers EXCEPT ![w] = [@ EXCEPT !.pc = "done",
                                              !.status = status]]

\* delete_dynamic_model: db.query(DynamicModel)...first()
DropQuery ==
  /\ workers[1].pc = "start"
  /\ \E q \in {QueryModel(db, 1)} :
       IF q.err \/ q.rows = <<>> THEN Answer(1, 500)
       ELSE workers' = [workers EXCEPT ![1] =
                          [@ EXCEPT !.pc = "queried",
                                    !.txn = TableOf(q.rows[1])]]
  /\ UNCHANGED <<db, metadata, now, resp, limiter, history>>

\* conn.execute("DROP TABLE IF EXISTS ..."); conn.commit()
DropTable(drop_ok) ==
  /\ workers[1].pc = "queried"
  /\ IF drop_ok
     THEN /\ db' = SqlDropIfExists(db, workers[1].txn)
          /\ workers' = [workers EXCEPT ![1] = [@ EXCEPT !.pc = "dropped"]]
     ELSE /\ db' = db
          /\ Answer(1, 500)
  /\ UNCHANGED <<metadata, now, resp, limiter, history>>

\* db.delete(db_model); db.commit(), or the except clause
DropCommit(commit_ok) ==
  /\ workers[1].pc = "dropped"
  /\ \E del \in {OrmDeleteModel(db, 1)} :
       IF del.err \/ ~commit_ok
       THEN db' = db /\ Answer(1, 500)
       ELSE db' = del.db /\ Answer(1, 200)
  /\ UNCHANGED <<metadata, now, resp, limiter, history>>

\* create_record / update_record / delete_record up to the statement: the
\* model query and _validate_data
WriteLoad ==
  /\ workers[2].pc = "start"
  /\ \E wr \in {workers[2].req} :
     \E q \in {QueryModel(db, 1)}, fs \in {ModelFields(db, 1)} :
     \E v \in {ValidateData(fs.rows, wr.data, wr.op = "update_record")} :
       IF q.err \/ q.rows = <<>> \/ fs.err THEN Answer(2, 400)
       ELSE IF wr.op # "delete_record" /\ ~v.ok THEN Answer(2, 400)
       ELSE workers' = [workers EXCEPT ![2] =
                          [@ EXCEPT !.pc = "loaded",
                                    !.txn = [table |-> TableOf(q.rows[1]),
                                             vals |-> v.vals]]]
  /\ UNCHANGED <<db, metadata, now, resp, limiter, history>>

\* the statement the write has applied: the id of the row it wrote
Applied(w, id) ==
  workers' = [workers EXCEPT ![w] = [@ EXCEPT !.pc = "written", !.id = id]]

\* with engine.connect() as conn: conn.execute(...); conn.commit()
WriteStatement ==
  /\ workers[2].pc = "loaded"
  /\ \E wr \in {workers[2].req}, t \in {workers[2].txn} :
       \/ /\ wr.op = "create_record"
          /\ \E ins \in {SqlInsert(db, t.table, t.vals, now)} :
               IF ins.err THEN db' = db /\ Answer(2, 400)
               ELSE db' = ins.db /\ Applied(2, ins.n)
       \/ /\ wr.op = "update_record"
          /\ \E upd \in {SqlUpdate(db, t.table, wr.record_id,
                                   (K_updated_at :> PyTime(now)) @@ t.vals)} :
               IF DOMAIN t.vals = {} \/ upd.err THEN db' = db /\ Answer(2, 400)
               ELSE IF upd.n = 0 THEN db' = db /\ Answer(2, 500)
               ELSE db' = upd.db /\ Applied(2, wr.record_id)
       \/ /\ wr.op = "delete_record"
          /\ \E del \in {SqlDelete(db, t.table, wr.record_id)} :
               IF del.err THEN db' = db /\ Answer(2, 400)
               ELSE IF del.n = 0 THEN db' = db /\ Answer(2, 500)
               ELSE /\ db' = del.db
                    /\ workers' = [workers EXCEPT ![2] =
                                     [@ EXCEPT !.pc = "done", !.status = 200,
                                               !.id = wr.record_id]]
  /\ UNCHANGED <<metadata, now, resp, limiter, history>>

\* return DynamicDataService.get_record(db, model_id, record_id)
WriteRead ==
  /\ workers[2].pc = "written"
  /\ \E svc \in {get_record(db, 1, workers[2].id)} :
       Answer(2, IF workers[2].req.op = "create_record"
                 THEN StatusValueError(svc) ELSE StatusRecordHandler(svc))
  /\ UNCHANGED <<db, metadata, now, resp, limiter, history>>

NextDrop ==
  \/ DropQuery
  \/ \E drop_ok \in BOOLEAN : DropTable(drop_ok)
  \/ \E commit_ok \in BOOLEAN : DropCommit(commit_ok)
  \/ WriteLoad
  \/ WriteStatement
  \/ WriteRead

SpecDrop == InitDrop /\ [][NextDrop]_vars

====
